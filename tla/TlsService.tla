----------------------------- MODULE TlsService -----------------------------
(***************************************************************************)
(* What the TLS server promises its connections, with no descriptors, no    *)
(* table of sessions and no loop: a connection's requests are taken one at  *)
(* a time, in the order they were sent, and only after its own handshake;   *)
(* it ends only after its peer has ended it, with all taken that was sent   *)
(* before an orderly end, or by a request that may close it, or with all    *)
(* the others when the service is shut down.                               *)
(***************************************************************************)
EXTENDS Naturals, Sequences

CONSTANTS Conns, Requests, MayClose(_)

VARIABLES
  phase,    \* new, queued, accepted, closed or refused
  peer,     \* open, fin or rst: what the client has done to its side
  hello,    \* has the client sent its side of the handshake
  shaken,   \* has the server taken it
  sent,     \* the requests the client has sent
  taken,    \* how many of them the server has taken
  down      \* is the service shut down

vars == <<phase, peer, hello, shaken, sent, taken, down>>

Init ==
  /\ phase = [c \in Conns |-> "new"]
  /\ peer = [c \in Conns |-> "open"]
  /\ hello = [c \in Conns |-> FALSE]
  /\ shaken = [c \in Conns |-> FALSE]
  /\ sent = [c \in Conns |-> <<>>]
  /\ taken = [c \in Conns |-> 0]
  /\ down = FALSE

Moves(c, from, to) == phase[c] = from /\ phase' = [phase EXCEPT ![c] = to]

Connect(c) ==
  /\ ~down
  /\ Moves(c, "new", "queued")
  /\ UNCHANGED <<peer, hello, shaken, sent, taken, down>>

Client(c) ==
  /\ phase[c] \in {"queued", "accepted"}
  /\ peer[c] = "open"
  /\ UNCHANGED <<phase, shaken, taken, down>>

Hello(c) == Client(c) /\ hello' = [hello EXCEPT ![c] = TRUE] /\ UNCHANGED <<peer, sent>>

Send(c, r) ==
  /\ Client(c)
  /\ hello[c]
  /\ sent' = [sent EXCEPT ![c] = Append(@, r)]
  /\ UNCHANGED <<peer, hello>>

End(c, how) == Client(c) /\ peer' = [peer EXCEPT ![c] = how] /\ UNCHANGED <<hello, sent>>

(* The server accepts a connection, or fails to. *)
Accept(c) ==
  /\ Moves(c, "queued", "accepted") \/ Moves(c, "queued", "closed")
  /\ UNCHANGED <<peer, hello, shaken, sent, taken, down>>

Handshake(c) ==
  /\ phase[c] = "accepted"
  /\ hello[c]
  /\ shaken' = [shaken EXCEPT ![c] = TRUE]
  /\ UNCHANGED <<phase, peer, hello, sent, taken, down>>

Closable(c, n) == n > 0 /\ MayClose(sent[c][n])

Take(c) ==
  /\ phase[c] = "accepted"
  /\ shaken[c]
  /\ peer[c] # "rst"
  /\ taken[c] < Len(sent[c])
  /\ taken' = [taken EXCEPT ![c] = @ + 1]
  /\ \/ UNCHANGED phase
     \/ Closable(c, taken'[c]) /\ Moves(c, "accepted", "closed")
  /\ UNCHANGED <<peer, hello, shaken, sent, down>>

(* The handler of the last request closes the connection. *)
Close(c) ==
  /\ Closable(c, taken[c])
  /\ Moves(c, "accepted", "closed")
  /\ UNCHANGED <<peer, hello, shaken, sent, taken, down>>

Ended(c) == peer[c] = "rst" \/ (peer[c] = "fin" /\ taken[c] = Len(sent[c]))

Release(cs) ==
  /\ \A c \in cs : phase[c] = "accepted" /\ Ended(c)
  /\ phase' = [c \in Conns |-> IF c \in cs THEN "closed" ELSE phase[c]]
  /\ UNCHANGED <<peer, hello, shaken, sent, taken, down>>

Shutdown ==
  /\ ~down
  /\ down' = TRUE
  /\ phase' = [c \in Conns |-> IF phase[c] = "accepted" THEN "closed"
                               ELSE IF phase[c] = "queued" THEN "refused" ELSE phase[c]]
  /\ UNCHANGED <<peer, hello, shaken, sent, taken>>

Next ==
  \/ \E c \in Conns :
       \/ Connect(c) \/ Hello(c) \/ Accept(c) \/ Handshake(c) \/ Take(c) \/ Close(c)
       \/ \E r \in Requests : Send(c, r)
       \/ \E how \in {"fin", "rst"} : End(c, how)
  \/ \E cs \in SUBSET Conns : Release(cs)
  \/ Shutdown

Spec == Init /\ [][Next]_vars

=============================================================================
