----------------------------- MODULE ConnService -----------------------------
(***************************************************************************)
(* What an HTTP server promises its connections, with no descriptors, no   *)
(* poll() and no loop: each connection is served by itself.  Requests are  *)
(* taken one at a time in the order they were sent; a request with a body  *)
(* for an answer is answered before the next one of its connection is      *)
(* taken, unless the peer is gone; and the server ends a connection only   *)
(* after its peer has.                                                     *)
(***************************************************************************)
EXTENDS Naturals, Sequences

CONSTANTS Conns, Requests, HasBody(_)

VARIABLES
  phase,    \* new, queued, accepted, closed or refused
  peer,     \* open, fin or rst: what the client has done to its side
  sent,     \* the requests the client has sent
  taken,    \* how many of them the server has taken
  out,      \* the requests answered, by their indices
  owed      \* is the answer to the last request taken still to come

vars == <<phase, peer, sent, taken, out, owed>>

Init ==
  /\ phase = [c \in Conns |-> "new"]
  /\ peer = [c \in Conns |-> "open"]
  /\ sent = [c \in Conns |-> <<>>]
  /\ taken = [c \in Conns |-> 0]
  /\ out = [c \in Conns |-> <<>>]
  /\ owed = [c \in Conns |-> FALSE]

Live(c) == phase[c] \in {"queued", "accepted"}

Connect(c) ==
  /\ phase[c] = "new"
  /\ phase' = [phase EXCEPT ![c] = "queued"]
  /\ UNCHANGED <<peer, sent, taken, out, owed>>

Send(c, r) ==
  /\ Live(c)
  /\ peer[c] = "open"
  /\ sent' = [sent EXCEPT ![c] = Append(@, r)]
  /\ UNCHANGED <<phase, peer, taken, out, owed>>

End(c, how) ==
  /\ Live(c)
  /\ how = "rst" \/ peer[c] = "open"
  /\ peer[c] # "rst"
  /\ peer' = [peer EXCEPT ![c] = how]
  /\ UNCHANGED <<phase, sent, taken, out, owed>>

Accept(c) ==
  /\ phase[c] = "queued"
  /\ phase' = [phase EXCEPT ![c] = "accepted"]
  /\ UNCHANGED <<peer, sent, taken, out, owed>>

Take(c) ==
  /\ phase[c] = "accepted"
  /\ ~owed[c]
  /\ taken[c] < Len(sent[c])
  /\ taken' = [taken EXCEPT ![c] = @ + 1]
  /\ owed' = [owed EXCEPT ![c] = HasBody(sent[c][taken'[c]])]
  /\ UNCHANGED <<phase, peer, sent, out>>

Answer(c) ==
  /\ owed[c]
  /\ peer[c] # "rst"
  /\ out' = [out EXCEPT ![c] = Append(@, taken[c])]
  /\ owed' = [owed EXCEPT ![c] = FALSE]
  /\ UNCHANGED <<phase, peer, sent, taken>>

GiveUp(c) ==
  /\ owed[c]
  /\ peer[c] = "rst"
  /\ owed' = [owed EXCEPT ![c] = FALSE]
  /\ UNCHANGED <<phase, peer, sent, taken, out>>

(* All that was sent before an orderly end is taken before the release. *)
Release(c) ==
  /\ phase[c] = "accepted"
  /\ ~owed[c]
  /\ peer[c] = "rst" \/ (peer[c] = "fin" /\ taken[c] = Len(sent[c]))
  /\ phase' = [phase EXCEPT ![c] = "closed"]
  /\ UNCHANGED <<peer, sent, taken, out, owed>>

(* The service shuts down: the connections it has not accepted are refused. *)
Refuse ==
  /\ phase' = [c \in Conns |-> IF phase[c] = "queued" THEN "refused" ELSE phase[c]]
  /\ UNCHANGED <<peer, sent, taken, out, owed>>

Next ==
  \/ \E c \in Conns :
       \/ Connect(c) \/ Accept(c) \/ Take(c) \/ Answer(c) \/ GiveUp(c) \/ Release(c)
       \/ \E r \in Requests : Send(c, r)
       \/ \E how \in {"fin", "rst"} : End(c, how)
  \/ Refuse

Spec == Init /\ [][Next]_vars

=============================================================================
