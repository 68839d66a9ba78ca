---------------------------- MODULE SslLoopProofs ----------------------------
(***************************************************************************)
(* The sessions of the TLS server's loop, for any connections, descriptors  *)
(* and records, and stop() at any moment.                                  *)
(*                                                                         *)
(* ssl_clients_, the kernel's table of descriptors and the sessions change  *)
(* at different moments; the invariant says how far apart they may be.     *)
(***************************************************************************)
EXTENDS SslLoop, TLAPS

USE DEF Busy

InHand == pc \in {"read", "handshake", "respond"}

TypeInv ==
  /\ TypeOK
  /\ backlog \in Seq(Conns)
  /\ sent \in [Conns -> Seq(Records)]
  /\ InHand => cur \in [fd : Fds, ssl : Conns]

(* No session has two entries, and those of the table are not freed by the
   server, nor of connections that accept() has still to return. *)
TableInv ==
  /\ SessionOfSocket
  /\ \A fd, g \in Keys : Ssl(fd) = Ssl(g) => fd = g
  /\ \A fd \in Keys : phase[Ssl(fd)] \notin {"new", "queued"}
                        /\ session[Ssl(fd)] \in {"live", "closed"}
  /\ \A i \in 1..Len(backlog) :
       /\ phase[backlog[i]] = "queued"
       /\ \A j \in 1..Len(backlog) : backlog[i] = backlog[j] => i = j

(* What is reported, marked dead or in hand is open, and only one of the three,
   until stop() has closed everything. *)
TurnInv ==
  /\ pc \in {"run", "check", "fds", "poll", "listen"} => dead = {}
  /\ ~stopped => \A fd \in dead : owner[fd] # None
  /\ ~stopped => \A fd \in ready : owner[fd] # None /\ fd \notin dead
  /\ InHand => IF stopped THEN session[cur.ssl] = "freed"
               ELSE owner[cur.fd] = cur.ssl /\ cur.fd \notin ready \cup dead

StopInv ==
  /\ pc = "run" => ~running /\ ~stopped
  /\ stopped => /\ \A fd \in Fds : table[fd] = NoEntry /\ owner[fd] = None
                /\ backlog = <<>> /\ lsn = "closed"

(* A flag of the table is true of the entry's own session. *)
HandshakeInv ==
  /\ \A d \in Conns : seen[d] <= hello[d]
  /\ \A fd \in Keys : table[fd].done => seen[Ssl(fd)] = Flights
  /\ InHand => seen[cur.ssl] = Flights
  /\ HandshakeFirst

CloseRead(d) == taken[d] > 0 /\ (Last(d).kind = "close" \/ Last(d).parts = 2)

(* A live session is behind its own open socket, or a Close frame was read. *)
KeptInv ==
  /\ \A d \in Conns : taken[d] <= Len(sent[d])
  /\ \A d \in Conns : session[d] = "live" =>
       CloseRead(d) \/ \E fd \in Keys : Ssl(fd) = d /\ owner[fd] = d

HandledLast(d) == taken[d] > 0 /\ Handled(Last(d))

(* What is left of a record is of the last one; a handler has closed a session,
   or is about to get a handshake, for the last record.  Only such a session is
   freed twice, and only by stop(), and what else is undefined follows from a
   session in hand that stop() has freed. *)
FreeInv ==
  /\ \A d \in Conns : rest[d] => taken[d] > 0 /\ Last(d).parts = 2
  /\ pc = "handshake" => HandledLast(cur.ssl)
  /\ \A d \in Conns : session[d] \in {"closed", "twice"} => HandledLast(d)
  /\ \A d \in Conns : session[d] = "twice" => stopped
  /\ pc = "undefined" =>
       /\ stopped
       /\ \/ \E d \in Conns : session[d] = "twice"
          \/ cur # NoOne /\ session[cur.ssl] = "freed"

SslInv == TypeInv /\ TableInv /\ TurnInv /\ StopInv /\ HandshakeInv /\ KeptInv /\ FreeInv

-----------------------------------------------------------------------------
(* An entry of the table has a session, no entry has none. *)
LEMMA KeyEntry ==
  ASSUME TypeInv, NEW fd \in Fds
  PROVE  /\ fd \in Keys => table[fd] \in [ssl : Conns, done : BOOLEAN] /\ Ssl(fd) \in Conns
         /\ fd \notin Keys => Ssl(fd) = None /\ table[fd].done = FALSE
         /\ Ssl(fd) \in Conns => fd \in Keys
         /\ table[fd].done => fd \in Keys
  BY SslAssumption DEF TypeInv, TypeOK, Keys, NoEntry, Ssl

LEMMA InitSslInv == Init => SslInv
<1> SUFFICES ASSUME Init
             PROVE  SslInv
  OBVIOUS
<1> USE DEF Init
<1>1. NoEntry \in {NoEntry} /\ Keys = {}
  BY DEF Keys
<1>2. TypeInv
  <2>1. 0 \in 0..Flights /\ 0 \in Nat
    BY DEF Flights
  <2>2. TypeOK
    BY <2>1, <1>1 DEF TypeOK
  <2>3. backlog \in Seq(Conns) /\ sent \in [Conns -> Seq(Records)]
    OBVIOUS
  <2> QED
    BY <2>2, <2>3 DEF TypeInv, InHand
<1>3. TableInv
  BY <1>1 DEF TableInv, SessionOfSocket
<1>4. TurnInv /\ StopInv
  BY DEF TurnInv, StopInv, InHand
<1>5. HandshakeInv /\ KeptInv /\ FreeInv
  BY <1>1 DEF HandshakeInv, KeptInv, InHand, HandshakeFirst, FreeInv
<1> QED
  BY <1>2, <1>3, <1>4, <1>5 DEF SslInv

-----------------------------------------------------------------------------
(* The clients. *)

(* A client's step leaves the server's state, and adds to what it has sent. *)
LEMMA ClientStep ==
  ASSUME SslInv, NEW d \in Conns,
         \/ Hello(d) \/ Stall(d) \/ Drain(d)
         \/ \E r \in Records : Send(d, r)
         \/ \E how \in {"fin", "rst"} : Leave(d, how)
  PROVE  SslInv'
<1>1. /\ UNCHANGED <<streamVars, socketVars, queueVars, loopVars, running, stopped>>
  BY DEF Hello, Stall, Drain, Send, Leave, Client
<1> USE DEF streamVars, socketVars, queueVars, loopVars
<1>2. /\ peer' \in [Conns -> {"open", "fin", "rst"}]
      /\ hello' \in [Conns -> 0..Flights]
      /\ \A e \in Conns : hello[e] <= hello'[e]
      /\ stalled' \in [Conns -> {"no", "full", "drained"}]
  <2>1. /\ hello \in [Conns -> 0..Flights] /\ peer \in [Conns -> {"open", "fin", "rst"}]
        /\ stalled \in [Conns -> {"no", "full", "drained"}]
    BY DEF SslInv, TypeInv, TypeOK
  <2>2. CASE Hello(d)
    BY <2>1, <2>2 DEF Hello, Flights
  <2>3. CASE ~Hello(d)
    <3>1. /\ UNCHANGED hello /\ peer' \in [Conns -> {"open", "fin", "rst"}]
          /\ stalled' \in [Conns -> {"no", "full", "drained"}]
      BY <2>1, <2>3 DEF Stall, Drain, Send, Leave
    <3> QED
      BY <2>1, <3>1 DEF Flights
  <2> QED
    BY <2>2, <2>3
<1>3. /\ sent' \in [Conns -> Seq(Records)]
      /\ \A e \in Conns : /\ Len(sent[e]) <= Len(sent'[e])
                          /\ \A i \in 1..Len(sent[e]) : sent'[e][i] = sent[e][i]
  <2>1. CASE UNCHANGED sent
    BY <2>1 DEF SslInv, TypeInv
  <2>2. CASE \E r \in Records : Send(d, r)
    <3>1. PICK r \in Records : sent' = [sent EXCEPT ![d] = Append(@, r)]
      BY <2>2 DEF Send
    <3> QED
      BY <3>1 DEF SslInv, TypeInv
  <2> QED
    BY <2>1, <2>2 DEF Hello, Stall, Drain, Leave
<1>4. Keys' = Keys /\ \A fd \in Fds : Ssl(fd)' = Ssl(fd)
  BY <1>1 DEF Keys, Ssl
<1>5. TypeInv'
  BY <1>1, <1>2, <1>3 DEF SslInv, TypeInv, TypeOK, InHand
<1>6. TableInv' /\ TurnInv' /\ StopInv'
  BY <1>1, <1>4 DEF SslInv, TableInv, TurnInv, StopInv, SessionOfSocket, InHand, Keys
<1>7. HandshakeInv'
  <2>1. \A e \in Conns : seen'[e] <= hello'[e]
    <3>1. \A e \in Conns : seen[e] \in Nat /\ hello[e] \in Nat /\ hello'[e] \in Nat
      <4>1. /\ seen \in [Conns -> 0..Flights] /\ hello \in [Conns -> 0..Flights]
            /\ hello' \in [Conns -> 0..Flights]
        BY <1>2 DEF SslInv, TypeInv, TypeOK
      <4> QED
        BY <4>1 DEF Flights
    <3>2. \A e \in Conns : seen[e] <= hello[e]
      BY DEF SslInv, HandshakeInv
    <3> QED
      BY <1>1, <1>2, <3>1, <3>2
  <2> QED
    BY <1>1, <1>4, <2>1 DEF SslInv, HandshakeInv, InHand, HandshakeFirst, Keys
<1>8. KeptInv'
  <2>1. \A e \in Conns : taken[e] \in Nat /\ taken[e] <= Len(sent[e]) /\ Len(sent[e]) \in Nat
                         /\ Len(sent'[e]) \in Nat
    BY <1>3 DEF SslInv, TypeInv, TypeOK, KeptInv
  <2>2. \A e \in Conns : taken[e] > 0 => taken'[e] = taken[e] /\ Last(e)' = Last(e)
    BY <1>1, <1>3, <2>1 DEF Last
  <2>3. \A e \in Conns : CloseRead(e) => CloseRead(e)'
    BY <2>2 DEF CloseRead
  <2> QED
    BY <1>1, <1>3, <1>4, <2>1, <2>3 DEF SslInv, KeptInv, Keys
<1>9. FreeInv'
  <2>1. \A e \in Conns : taken[e] \in Nat /\ taken[e] <= Len(sent[e]) /\ Len(sent[e]) \in Nat
    BY DEF SslInv, TypeInv, TypeOK, KeptInv
  <2>2. \A e \in Conns : taken[e] > 0 => taken'[e] = taken[e] /\ Last(e)' = Last(e)
    BY <1>1, <1>3, <2>1 DEF Last
  <2>3. \A e \in Conns : HandledLast(e) => HandledLast(e)'
    BY <2>2 DEF HandledLast
  <2>4. pc = "handshake" => cur.ssl \in Conns
    BY DEF SslInv, TypeInv, InHand
  <2>5. \A e \in Conns : rest'[e] => taken'[e] > 0 /\ Last(e)'.parts = 2
    BY <1>1, <2>2 DEF SslInv, FreeInv
  <2>6. pc' = "handshake" => HandledLast(cur.ssl)'
    BY <1>1, <2>3, <2>4 DEF SslInv, FreeInv, HandledLast, Last
  <2> QED
    BY <1>1, <2>3, <2>5, <2>6 DEF SslInv, FreeInv
<1> QED
  BY <1>5, <1>6, <1>7, <1>8, <1>9 DEF SslInv

LEMMA ConnectStep ==
  ASSUME SslInv, NEW d \in Conns, Connect(d)
  PROVE  SslInv'
<1> USE DEF Connect, clientVars, streamVars, loopVars
<1>1. Keys' = Keys /\ \A fd \in Fds : Ssl(fd)' = Ssl(fd)
  BY DEF Keys, Ssl
<1>2. TypeInv'
  BY DEF SslInv, TypeInv, TypeOK, InHand
<1>3. TableInv'
  <2>1. \A fd \in Keys : Ssl(fd) # d
    BY DEF SslInv, TableInv
  <2>2. \A i \in 1..Len(backlog) : backlog[i] # d /\ backlog[i] \in Conns
    BY DEF SslInv, TypeInv, TableInv
  <2>3. Len(backlog') = Len(backlog) + 1 /\ backlog'[Len(backlog) + 1] = d
        /\ \A i \in 1..Len(backlog) : backlog'[i] = backlog[i]
    BY DEF SslInv, TypeInv
  <2>4. \A i \in 1..Len(backlog') :
          /\ phase'[backlog'[i]] = "queued"
          /\ \A j \in 1..Len(backlog') : backlog'[i] = backlog'[j] => i = j
    <3>1. \A i \in 1..Len(backlog') :
            \/ i \in 1..Len(backlog) /\ backlog'[i] = backlog[i]
            \/ i = Len(backlog) + 1 /\ backlog'[i] = d
      BY <2>3 DEF SslInv, TypeInv
    <3>2. phase'[d] = "queued" /\ \A e \in Conns \ {d} : phase'[e] = phase[e]
      BY DEF SslInv, TypeInv, TypeOK
    <3>3. \A i, j \in 1..Len(backlog) : phase[backlog[i]] = "queued"
                                        /\ (backlog[i] = backlog[j] => i = j)
      BY DEF SslInv, TableInv
    <3> QED
      BY <2>2, <3>1, <3>2, <3>3
  <2>5. SessionOfSocket'
    BY DEF SslInv, TableInv, SessionOfSocket, Ssl
  <2>6. \A fd \in Keys' : phase'[Ssl(fd)'] \notin {"new", "queued"}
    BY <1>1, <2>1, KeyEntry DEF SslInv, TableInv, TypeInv, TypeOK, Keys
  <2> QED
    BY <1>1, <2>4, <2>5, <2>6 DEF SslInv, TableInv, Keys
<1>4. TurnInv' /\ StopInv'
  BY DEF SslInv, TurnInv, StopInv, InHand
<1>5. HandshakeInv' /\ KeptInv' /\ FreeInv'
  BY <1>1
     DEF SslInv, HandshakeInv, KeptInv, InHand, HandshakeFirst, CloseRead, Keys, FreeInv,
         HandledLast, Last
<1> QED
  BY <1>2, <1>3, <1>4, <1>5 DEF SslInv

-----------------------------------------------------------------------------
(* The beginning of a turn. *)

LEMMA TurnStep ==
  ASSUME SslInv,
         \/ Run \/ RunFails \/ CheckRunning \/ BuildPollfds
         \/ Poll \/ PollInterrupted \/ ListenDone
  PROVE  SslInv'
<1>1. /\ UNCHANGED <<clientVars, streamVars, socketVars, backlog, dead, cur, stopped>>
      /\ pc \in {"run", "check", "fds", "poll", "listen"}
      /\ pc' \in {"check", "exited", "fds", "poll", "asleep", "listen", "clients"}
  BY DEF Run, RunFails, CheckRunning, BuildPollfds, Poll, PollInterrupted, ListenDone, Turn, Goto, queueVars
<1>2. \/ lsn' = lsn /\ running' = running
      \/ pc = "run" /\ lsn' = "open" /\ running' = TRUE
  <2>1. CASE Run
    BY <2>1 DEF Run, Goto
  <2>2. CASE ~Run
    BY <2>2 DEF RunFails, CheckRunning, BuildPollfds, Poll, PollInterrupted, ListenDone, Turn, queueVars
  <2> QED
    BY <2>1, <2>2
<1>3. ready' = ready \/ (ready' = PollIn /\ pc = "poll")
  BY DEF Run, RunFails, CheckRunning, BuildPollfds, Poll, PollInterrupted, ListenDone, Goto
<1> USE DEF clientVars, streamVars, socketVars
<1>4. Keys' = Keys /\ \A fd \in Fds : Ssl(fd)' = Ssl(fd)
  BY <1>1 DEF Keys, Ssl
<1>5. TypeInv'
  <2>1. ready' \subseteq Fds
    BY <1>3 DEF SslInv, TypeInv, TypeOK, PollIn, Keys
  <2>2. lsn' \in {"unset", "open", "closed"} /\ {running', stopped'} \subseteq BOOLEAN
    BY <1>1, <1>2 DEF SslInv, TypeInv, TypeOK
  <2> QED
    BY <1>1, <2>1, <2>2 DEF SslInv, TypeInv, TypeOK, InHand
<1>6. TableInv'
  BY <1>1, <1>4 DEF SslInv, TableInv, SessionOfSocket, Keys
<1>7. TurnInv'
  BY <1>1, <1>3 DEF SslInv, TurnInv, InHand, PollIn
<1>8. StopInv'
  BY <1>1, <1>2 DEF SslInv, StopInv
<1>9. HandshakeInv' /\ KeptInv' /\ FreeInv'
  BY <1>1, <1>4
     DEF SslInv, HandshakeInv, KeptInv, InHand, HandshakeFirst, CloseRead, Keys, FreeInv,
         HandledLast, Last
<1> QED
  BY <1>5, <1>6, <1>7, <1>8, <1>9 DEF SslInv

(* accept(): the connection at the head of the queue leaves it. *)
LEMMA QueueHead ==
  ASSUME SslInv, NEW fd \in Fds, Accepts(fd)
  PROVE  /\ Head(backlog) \in Conns /\ phase[Head(backlog)] = "queued"
         /\ \A g \in Keys : Ssl(g) # Head(backlog)
         /\ backlog' \in Seq(Conns)
         /\ \A i \in 1..Len(backlog') :
              /\ backlog'[i] # Head(backlog) /\ phase[backlog'[i]] = "queued"
              /\ \A j \in 1..Len(backlog') : backlog'[i] = backlog'[j] => i = j
         /\ ~stopped /\ dead = {} /\ owner[fd] = None
<1>1. backlog \in Seq(Conns) /\ backlog # <<>> /\ backlog' = Tail(backlog) /\ owner[fd] = None
  BY DEF Accepts, ListenIn, SslInv, TypeInv
<1>2. Len(backlog) > 0 /\ Len(backlog') = Len(backlog) - 1 /\ Head(backlog) = backlog[1]
      /\ \A i \in 1..Len(backlog') : backlog'[i] = backlog[i + 1] /\ i + 1 \in 1..Len(backlog)
  BY <1>1
<1>3. \A i, j \in 1..Len(backlog) : phase[backlog[i]] = "queued"
                                    /\ (backlog[i] = backlog[j] => i = j)
  BY DEF SslInv, TableInv
<1>4. 1 \in 1..Len(backlog) /\ backlog[1] \in Conns
  BY <1>1, <1>2
<1>5. \A g \in Keys : Ssl(g) # Head(backlog)
  BY <1>2, <1>3, <1>4 DEF SslInv, TableInv
<1>6. \A i \in 1..Len(backlog') :
        /\ backlog'[i] # Head(backlog) /\ phase[backlog'[i]] = "queued"
        /\ \A j \in 1..Len(backlog') : backlog'[i] = backlog'[j] => i = j
  BY <1>2, <1>3, <1>4
<1>7. ~stopped /\ dead = {}
  BY <1>1 DEF SslInv, StopInv, TurnInv, Accepts, Goto
<1> QED
  BY <1>1, <1>2, <1>3, <1>4, <1>5, <1>6, <1>7

LEMMA AcceptStep ==
  ASSUME SslInv, NEW fd \in Fds, Accept(fd)
  PROVE  SslInv'
<1> DEFINE d == Head(backlog)
<1>1. /\ d \in Conns /\ phase[d] = "queued" /\ \A g \in Keys : Ssl(g) # d
      /\ backlog' \in Seq(Conns)
      /\ \A i \in 1..Len(backlog') :
              /\ backlog'[i] # d /\ phase[backlog'[i]] = "queued"
              /\ \A j \in 1..Len(backlog') : backlog'[i] = backlog'[j] => i = j
      /\ ~stopped /\ dead = {} /\ owner[fd] = None
  BY QueueHead DEF Accept
<1>2. /\ owner' = [owner EXCEPT ![fd] = d]
      /\ phase' = [phase EXCEPT ![d] = "accepted"]
      /\ session' = [session EXCEPT ![d] = "live"]
      /\ table' = [table EXCEPT ![fd] = [ssl |-> d, done |-> FALSE]]
      /\ UNCHANGED <<clientVars, streamVars, lsn, ready, dead, cur, running, stopped>>
      /\ pc = "listen" /\ pc' = "clients"
  BY DEF Accept, Accepts, Enters, NewEntry, Goto
<1> HIDE DEF d
<1> USE DEF clientVars, streamVars
<1>3. TypeInv'
  <2>1. [ssl |-> d, done |-> FALSE] \in [ssl : Conns, done : BOOLEAN]
    BY <1>1
  <2> QED
    BY <1>1, <1>2, <2>1 DEF SslInv, TypeInv, TypeOK, InHand
<1>4. /\ fd \in Keys' /\ Ssl(fd)' = d
      /\ \A g \in Fds \ {fd} : /\ table'[g] = table[g] /\ Ssl(g)' = Ssl(g)
                               /\ owner'[g] = owner[g] /\ (g \in Keys' <=> g \in Keys)
  BY <1>1, <1>2, SslAssumption DEF SslInv, TypeInv, TypeOK, Keys, Ssl, NoEntry
<1>5. Keys \subseteq Fds /\ Keys' \subseteq Fds
  BY DEF Keys
<1>6. owner'[fd] = d
  BY <1>2 DEF SslInv, TypeInv, TypeOK
<1>7. /\ phase'[d] = "accepted" /\ session'[d] = "live"
      /\ \A e \in Conns \ {d} : phase'[e] = phase[e] /\ session'[e] = session[e]
  BY <1>1, <1>2 DEF SslInv, TypeInv, TypeOK
<1>8. \A g \in Fds \ {fd} : owner[g] # None => g \in Keys /\ Ssl(g) = owner[g] /\ owner[g] # d
                                               /\ owner[g] \in Conns
  <2>1. \A g \in Fds : owner[g] # None => owner[g] \in Conns /\ Ssl(g) = owner[g]
    BY DEF SslInv, TypeInv, TypeOK, TableInv, SessionOfSocket
  <2>2. \A g \in Fds : owner[g] # None => g \in Keys
    BY <2>1, KeyEntry DEF SslInv
  <2> QED
    BY <1>1, <2>1, <2>2
<1>9. TableInv'
  <2>1. SessionOfSocket'
    BY <1>4, <1>6, <1>7, <1>8 DEF SslInv, TableInv, SessionOfSocket
  <2>2. \A g, h \in Keys' : Ssl(g)' = Ssl(h)' => g = h
    BY <1>1, <1>4, <1>5 DEF SslInv, TableInv
  <2>3. \A g \in Keys' : phase'[Ssl(g)'] \notin {"new", "queued"}
                         /\ session'[Ssl(g)'] \in {"live", "closed"}
    <3>1. \A g \in Keys : Ssl(g) \in Conns \ {d} /\ phase[Ssl(g)] \notin {"new", "queued"}
                          /\ session[Ssl(g)] \in {"live", "closed"}
      BY <1>1, <1>5, KeyEntry DEF SslInv, TableInv
    <3>2. \A g \in Keys' : g = fd \/ (g \in Keys /\ Ssl(g)' = Ssl(g))
      BY <1>4, <1>5
    <3> QED
      BY <1>4, <1>7, <3>1, <3>2
  <2>4. \A i \in 1..Len(backlog') : backlog'[i] \in Conns
    BY <1>1
  <2> QED
    BY <1>1, <1>7, <2>1, <2>2, <2>3, <2>4 DEF TableInv
<1>10. TurnInv'
  BY <1>1, <1>2, <1>4, <1>6 DEF SslInv, TypeInv, TypeOK, TurnInv, InHand
<1>11. StopInv'
  BY <1>1, <1>2 DEF StopInv
<1>12. HandshakeInv'
  BY <1>2, <1>4, <1>5 DEF SslInv, TypeInv, TypeOK, HandshakeInv, InHand, HandshakeFirst
<1>13. KeptInv'
  <2>1. \A e \in Conns : taken[e] <= Len(sent[e]) /\ (CloseRead(e)' <=> CloseRead(e))
    BY <1>2 DEF SslInv, KeptInv, CloseRead, Last
  <2>2. ASSUME NEW e \in Conns \ {d}, session'[e] = "live", ~CloseRead(e)
        PROVE  \E g \in Keys' : Ssl(g)' = e /\ owner'[g] = e
    <3>1. PICK g \in Keys : Ssl(g) = e /\ owner[g] = e
      BY <1>7, <2>2 DEF SslInv, KeptInv
    <3>2. g \in Fds \ {fd}
      BY <1>1, <1>5, <3>1, SslAssumption
    <3> QED
      BY <1>4, <3>1, <3>2
  <2> QED
    BY <1>2, <1>4, <1>6, <2>1, <2>2 DEF KeptInv
<1>14. FreeInv'
  <2>1. \A e \in Conns : HandledLast(e)' <=> HandledLast(e)
    BY <1>2 DEF HandledLast, Last
  <2>2. \A e \in Conns : session'[e] \in {"closed", "twice"} => session[e] = session'[e]
    BY <1>7
  <2>3. \A e \in Conns : rest'[e] => taken'[e] > 0 /\ Last(e)'.parts = 2
    BY <1>2 DEF SslInv, FreeInv, Last
  <2> QED
    BY <1>2, <2>1, <2>2, <2>3 DEF SslInv, FreeInv
<1> QED
  BY <1>3, <1>9, <1>10, <1>11, <1>12, <1>13, <1>14 DEF SslInv

LEMMA AcceptFailsStep ==
  ASSUME SslInv, NEW fd \in Fds, AcceptFails(fd)
  PROVE  SslInv'
<1> DEFINE d == Head(backlog)
<1>1. /\ d \in Conns /\ phase[d] = "queued" /\ \A g \in Keys : Ssl(g) # d
      /\ backlog' \in Seq(Conns)
      /\ \A i \in 1..Len(backlog') :
              /\ backlog'[i] # d /\ phase[backlog'[i]] = "queued"
              /\ \A j \in 1..Len(backlog') : backlog'[i] = backlog'[j] => i = j
      /\ ~stopped /\ dead = {} /\ owner[fd] = None
  BY QueueHead DEF AcceptFails
<1>2. /\ phase' = [phase EXCEPT ![d] = "closed"]
      /\ UNCHANGED <<owner, session, table>>
      /\ UNCHANGED <<clientVars, streamVars, lsn, ready, dead, cur, running, stopped>>
      /\ pc = "listen" /\ pc' = "clients"
  BY DEF AcceptFails, Accepts, Goto
<1> HIDE DEF d
<1> USE DEF clientVars, streamVars
<1>3. Keys' = Keys /\ \A g \in Fds : Ssl(g)' = Ssl(g)
  BY <1>2 DEF Keys, Ssl
<1>4. TypeInv'
  BY <1>1, <1>2 DEF SslInv, TypeInv, TypeOK, InHand
<1>5. TableInv'
  <2>1. phase'[d] = "closed" /\ \A e \in Conns \ {d} : phase'[e] = phase[e]
    BY <1>1, <1>2 DEF SslInv, TypeInv, TypeOK
  <2>2. \A g \in Keys : Ssl(g) \in Conns
    BY KeyEntry DEF SslInv, Keys
  <2>3. \A i \in 1..Len(backlog') : backlog'[i] \in Conns
    BY <1>1
  <2>4. SessionOfSocket'
    BY <1>2, <1>3 DEF SslInv, TableInv, SessionOfSocket
  <2> QED
    BY <1>1, <1>2, <1>3, <2>1, <2>2, <2>3, <2>4 DEF SslInv, TableInv, Keys
<1>6. TurnInv'
  BY <1>1, <1>2 DEF SslInv, TurnInv, InHand
<1>7. StopInv'
  BY <1>1, <1>2 DEF StopInv
<1>8. HandshakeInv' /\ KeptInv' /\ FreeInv'
  BY <1>2, <1>3
     DEF SslInv, HandshakeInv, KeptInv, InHand, HandshakeFirst, CloseRead, Keys, FreeInv,
         HandledLast, Last
<1> QED
  BY <1>4, <1>5, <1>6, <1>7, <1>8 DEF SslInv

-----------------------------------------------------------------------------
(* handleClientSocket() up to SSL_accept(): the one descriptor is reported no
   more, and marked dead or in hand if it is anything. *)
LEMMA HandleStep ==
  ASSUME SslInv, NEW fd \in Fds,
         Gone(fd) \/ Established(fd) \/ ShakeDone(fd) \/ ShakeMore(fd) \/ ShakeFails(fd)
  PROVE  SslInv'
<1>1. /\ UNCHANGED <<clientVars, taken, rest, phase, owner, session, queueVars, running,
                     stopped>>
      /\ fd \in ready /\ ready' = ready \ {fd} /\ pc = "clients"
  BY DEF Gone, Established, ShakeDone, ShakeMore, ShakeFails, Shake, Handling
<1> USE DEF clientVars, queueVars
<1>2. CASE Gone(fd)
  <2>1. UNCHANGED <<seen, table, pc, dead, cur>>
    BY <1>2 DEF Gone
  <2>2. Keys' = Keys /\ \A g \in Fds : Ssl(g)' = Ssl(g)
    BY <2>1 DEF Keys, Ssl
  <2>3. TypeInv' /\ TableInv'
    BY <1>1, <2>1, <2>2
       DEF SslInv, TypeInv, TypeOK, InHand, TableInv, SessionOfSocket, Keys
  <2>4. TurnInv' /\ StopInv'
    BY <1>1, <2>1 DEF SslInv, TurnInv, StopInv, InHand
  <2>5. HandshakeInv' /\ KeptInv' /\ FreeInv'
    BY <1>1, <2>1, <2>2
       DEF SslInv, HandshakeInv, KeptInv, InHand, HandshakeFirst, CloseRead, Keys, FreeInv,
           HandledLast, Last
  <2> QED
    BY <2>3, <2>4, <2>5 DEF SslInv
<1>3. CASE ~Gone(fd)
  <2> DEFINE d == Ssl(fd)
  <2>1. fd \in Keys /\ table[fd] \in [ssl : Conns, done : BOOLEAN] /\ d \in Conns
    BY <1>3, KeyEntry DEF SslInv, Established, ShakeDone, ShakeMore, ShakeFails, Shake
  <2>2. ~stopped /\ owner[fd] = d /\ fd \notin dead /\ session[d] = "live"
    <3>1. ~stopped
      BY <2>1 DEF SslInv, StopInv, Keys
    <3>2. owner[fd] # None /\ fd \notin dead
      BY <1>1, <3>1 DEF SslInv, TurnInv
    <3> QED
      BY <3>1, <3>2 DEF SslInv, TableInv, SessionOfSocket
  <2>3. seen' = seen \/ seen' = [seen EXCEPT ![d] = hello[d]]
    BY <1>3 DEF Established, ShakeDone, ShakeMore, ShakeFails, Shake
  <2>4. \/ table' = table
        \/ table' = [table EXCEPT ![fd].done = TRUE] /\ seen'[d] = Flights
    <3>1. CASE ShakeDone(fd)
      BY <3>1, <2>1 DEF ShakeDone, Shake, SslInv, TypeInv, TypeOK
    <3>2. CASE ~ShakeDone(fd)
      BY <1>3, <3>2 DEF Established, ShakeMore, ShakeFails
    <3> QED
      BY <3>1, <3>2
  <2>5. \/ /\ pc' = "read" /\ cur' = [fd |-> fd, ssl |-> d] /\ dead' = dead
           /\ seen'[d] = Flights
        \/ pc' = "clients" /\ cur' = cur /\ dead' \in {dead, dead \cup {fd}}
    <3>1. CASE ShakeDone(fd)
      BY <3>1, <2>1 DEF ShakeDone, ToRead, Shake, SslInv, TypeInv, TypeOK
    <3>2. CASE Established(fd)
      BY <3>2, <2>1 DEF Established, ToRead, SslInv, HandshakeInv
    <3>3. CASE ShakeMore(fd) \/ ShakeFails(fd)
      BY <1>1, <3>3 DEF ShakeMore, ShakeFails
    <3> QED
      BY <1>3, <3>1, <3>2, <3>3
  <2> HIDE DEF d
  <2>6. /\ \A g \in Fds : Ssl(g)' = Ssl(g) /\ (table'[g].done => table[g].done \/ g = fd)
        /\ Keys' = Keys
        /\ table' \in [Fds -> [ssl : Conns, done : BOOLEAN] \cup {NoEntry}]
        /\ (table'[fd].done => table[fd].done \/ seen'[d] = Flights)
    <3>1. CASE table' = table
      BY <3>1 DEF Ssl, Keys, SslInv, TypeInv, TypeOK
    <3>2. CASE table' # table
      <4>1. table' = [table EXCEPT ![fd].done = TRUE] /\ seen'[d] = Flights
        BY <2>4, <3>2
      <4>2. table'[fd] = [table[fd] EXCEPT !.done = TRUE]
            /\ \A g \in Fds \ {fd} : table'[g] = table[g]
        BY <4>1 DEF SslInv, TypeInv, TypeOK
      <4>3. table'[fd] \in [ssl : Conns, done : BOOLEAN] /\ table'[fd].ssl = table[fd].ssl
        BY <2>1, <4>2
      <4>4. fd \in Keys'
        BY <4>3, SslAssumption DEF Keys, NoEntry
      <4>5. Keys' = Keys
        BY <2>1, <4>2, <4>4 DEF Keys
      <4>6. table' \in [Fds -> [ssl : Conns, done : BOOLEAN] \cup {NoEntry}]
        BY <4>1, <4>2, <4>3 DEF SslInv, TypeInv, TypeOK
      <4> QED
        BY <4>1, <4>2, <4>3, <4>5, <4>6 DEF Ssl
    <3> QED
      BY <3>1, <3>2
  <2>7. /\ seen' \in [Conns -> 0..Flights]
        /\ \A e \in Conns : seen'[e] <= hello[e] /\ (seen[e] = Flights => seen'[e] = Flights)
    <3>1. seen \in [Conns -> 0..Flights] /\ hello \in [Conns -> 0..Flights]
          /\ \A e \in Conns : seen[e] <= hello[e]
      BY DEF SslInv, TypeInv, TypeOK, HandshakeInv
    <3> QED
      BY <2>1, <2>3, <3>1 DEF Flights
  <2>8. TypeInv'
    <3>1. pc' \in {"read", "clients"} /\ dead' \subseteq Fds /\ ready' \subseteq Fds
          /\ cur' \in [fd : Fds, ssl : Conns] \cup {NoOne}
          /\ (pc' = "read" => cur' \in [fd : Fds, ssl : Conns])
      BY <1>1, <2>1, <2>5 DEF SslInv, TypeInv, TypeOK
    <3> QED
      BY <1>1, <2>6, <2>7, <3>1 DEF SslInv, TypeInv, TypeOK, InHand
  <2>9. TableInv'
    BY <1>1, <2>6 DEF SslInv, TableInv, SessionOfSocket, Keys
  <2>10. TurnInv'
    BY <1>1, <2>1, <2>2, <2>5 DEF SslInv, TurnInv, InHand
  <2>11. StopInv'
    BY <1>1, <2>2, <2>5 DEF StopInv
  <2>12. HandshakeInv'
    <3>1. \A g \in Keys : table'[g].done => seen'[Ssl(g)] = Flights
      BY <2>6, <2>7, KeyEntry DEF SslInv, HandshakeInv, d, Keys
    <3>2. InHand' => seen'[cur'.ssl] = Flights
      BY <2>5 DEF InHand
    <3>3. HandshakeFirst'
      BY <1>1, <2>7 DEF SslInv, HandshakeInv, HandshakeFirst
    <3> QED
      BY <1>1, <2>6, <2>7, <3>1, <3>2, <3>3 DEF HandshakeInv, Keys
  <2>13. KeptInv'
    BY <1>1, <2>6 DEF SslInv, KeptInv, CloseRead, Last, Keys
  <2>14. FreeInv'
    BY <1>1, <2>5 DEF SslInv, FreeInv, HandledLast, Last
  <2> QED
    BY <2>8, <2>9, <2>10, <2>11, <2>12, <2>13, <2>14 DEF SslInv
<1> QED
  BY <1>2, <1>3

-----------------------------------------------------------------------------
(* The rest of handleClientSocket(), with a descriptor and its session in hand. *)

ServeNext ==
  \/ UseAfterFree \/ ReadNothing \/ ReadFails
  \/ PerformClose \/ PerformFrame \/ PerformHttp
  \/ Switch \/ SwitchFails \/ Respond \/ Killed \/ KilledBySend

(* A step with connection d in hand takes a record, closes the connection for
   the last one taken, or both. *)
Takes(d) ==
  \/ taken' = taken
  \/ /\ taken[d] < Len(sent[d]) /\ peer[d] # "rst"
     /\ taken' = [taken EXCEPT ![d] = @ + 1]

(* What a step leaves of a record is of the last one taken. *)
Leaves(d) ==
  /\ rest' \in [Conns -> BOOLEAN]
  /\ \A e \in Conns \ {d} : rest'[e] = rest[e]
  /\ rest'[d] => taken'[d] > 0 /\ sent[d][taken'[d]].parts = 2

Works(from, to) ==
  /\ pc = from /\ pc' = to
  /\ cur' = IF to \in {"handshake", "respond", "undefined"} THEN cur ELSE NoOne
  /\ UNCHANGED <<clientVars, seen, table, queueVars, ready, running, stopped>>

(* SSL_read() returns bytes of the last record taken: its beginning, or what
   looks like any kind. *)
LEMMA ReadRecord ==
  ASSUME SslInv, NEW kind, NEW to, Read(kind, to), NEW d \in Conns, d = cur.ssl
  PROVE  /\ Works("read", to) /\ session[d] = "live" /\ UNCHANGED dead
         /\ Takes(d) /\ Leaves(d) /\ taken'[d] > 0
         /\ sent[d][taken'[d]].kind = kind \/ sent[d][taken'[d]].parts = 2
<1>1. /\ Works("read", to) /\ session[d] = "live" /\ peer[d] # "rst" /\ UNCHANGED dead
  BY DEF Read, Reading, Serve, Goto, c, Works
<1>2. taken \in [Conns -> Nat] /\ rest \in [Conns -> BOOLEAN]
  BY DEF SslInv, TypeInv, TypeOK
<1>3. CASE rest[d] /\ rest' = [rest EXCEPT ![d] = FALSE] /\ UNCHANGED taken
  <2>1. taken[d] > 0 /\ sent[d][taken[d]].parts = 2
    BY <1>3 DEF SslInv, FreeInv, Last
  <2>2. Leaves(d)
    BY <1>2, <1>3 DEF Leaves
  <2> QED
    BY <1>1, <1>3, <2>1, <2>2 DEF Takes
<1>4. CASE /\ Unread(d)
           /\ taken' = [taken EXCEPT ![d] = @ + 1]
           /\ kind = sent[d][taken'[d]].kind
           /\ rest' = [rest EXCEPT ![d] = sent[d][taken'[d]].parts = 2]
  <2>1. taken'[d] = taken[d] + 1
    BY <1>2, <1>4
  <2>2. taken'[d] > 0
    BY <1>2, <2>1
  <2>3. Takes(d)
    BY <1>1, <1>4 DEF Takes, Unread
  <2>4. Leaves(d)
    BY <1>2, <1>4, <2>2 DEF Leaves
  <2> QED
    BY <1>1, <1>4, <2>2, <2>3, <2>4
<1> QED
  BY <1>3, <1>4 DEF Read, c

Closes(d, f) ==
  /\ owner' = [owner EXCEPT ![f] = None]
  /\ phase' = [phase EXCEPT ![d] = "closed"]
  /\ pc' = "clients" /\ taken'[d] > 0
  /\ \/ session' = [session EXCEPT ![d] = "closed"] /\ Handled(sent[d][taken'[d]])
     \/ /\ session' = session
        /\ sent[d][taken'[d]].kind = "close" \/ sent[d][taken'[d]].parts = 2

(* What the steps with a session in hand have in common. *)
LEMMA ServeFacts ==
  ASSUME SslInv, ServeNext,
         NEW d \in Conns, d = cur.ssl, NEW f \in Fds, f = cur.fd
  PROVE  /\ \E from \in Busy, to \in {"clients", "handshake", "respond", "killed", "undefined"} :
               Works(from, to)
         /\ \/ dead' = dead
            \/ ReadFails /\ dead' = dead \cup {f} /\ pc' = "clients" /\ KeepSocket
                         /\ taken' = taken
         /\ Takes(d) /\ Leaves(d)
         /\ pc' = "handshake" => taken'[d] > 0 /\ Handled(sent[d][taken'[d]])
         /\ KeepSocket \/ Closes(d, f)
         /\ pc' # "undefined" => session[d] = "live"
         /\ pc' = "undefined" => session[d] # "live" /\ KeepSocket
<1>1. rest \in [Conns -> BOOLEAN] /\ (rest[d] => taken[d] > 0 /\ sent[d][taken[d]].parts = 2)
  BY DEF SslInv, TypeInv, TypeOK, FreeInv, Last
<1>2. UNCHANGED <<taken, rest>> => Takes(d) /\ Leaves(d)
  BY <1>1 DEF Takes, Leaves
<1>3. CASE UseAfterFree \/ ReadNothing \/ ReadFails
  BY <1>2, <1>3 DEF UseAfterFree, ReadNothing, ReadFails, Reading, Serve, Goto, c, Works
<1>4. CASE SwitchFails \/ Respond \/ Killed
  BY <1>2, <1>4 DEF SwitchFails, Respond, Killed, Writing, Serve, Goto, c, Works
<1>5. CASE Switch
  <2>1. /\ Works("handshake", "clients") /\ session[d] = "live" /\ UNCHANGED <<taken, rest, dead>>
    BY <1>5 DEF Switch, Writing, Serve, Goto, c, Works
  <2>2. taken[d] > 0 /\ Handled(sent[d][taken[d]])
    BY <2>1 DEF SslInv, FreeInv, HandledLast, Last, Works
  <2>3. KeepSocket \/ Closes(d, f)
    BY <1>5, <2>1, <2>2 DEF Switch, DispatchWebSocket, CloseSocket, Closes, Works, c
  <2> QED
    BY <1>2, <2>1, <2>2, <2>3 DEF Works
<1>6. CASE PerformFrame
  <2>1. Read("frame", "clients")
    BY <1>6 DEF PerformFrame
  <2>2. /\ Works("read", "clients") /\ session[d] = "live" /\ UNCHANGED dead
        /\ Takes(d) /\ Leaves(d) /\ taken'[d] > 0
        /\ sent[d][taken'[d]].kind = "frame" \/ sent[d][taken'[d]].parts = 2
    BY <2>1, ReadRecord
  <2>3. KeepSocket \/ Closes(d, f)
    BY <1>6, <2>2 DEF PerformFrame, DispatchWebSocket, CloseSocket, Closes, Works, Handled, c
  <2> QED
    BY <2>2, <2>3 DEF Works
<1>7. CASE PerformClose
  <2>1. Read("close", "clients")
    BY <1>7 DEF PerformClose
  <2>2. /\ Works("read", "clients") /\ session[d] = "live" /\ UNCHANGED dead
        /\ Takes(d) /\ Leaves(d) /\ taken'[d] > 0
        /\ sent[d][taken'[d]].kind = "close" \/ sent[d][taken'[d]].parts = 2
    BY <2>1, ReadRecord
  <2>3. Closes(d, f)
    BY <1>7, <2>2 DEF PerformClose, CloseSocket, Closes, Works, c
  <2> QED
    BY <2>2, <2>3 DEF Works
<1>8. CASE PerformHttp
  <2>1. PICK kind \in Kinds \cup {"quiet"} : Read(kind, Answer(kind))
    BY <1>8 DEF PerformHttp
  <2>2. PICK to \in {"clients", "handshake", "respond"} :
          Read(kind, to) /\ (to = "handshake" => kind = "upgrade")
    BY <2>1 DEF Answer
  <2>3. /\ Works("read", to) /\ session[d] = "live" /\ UNCHANGED dead
        /\ Takes(d) /\ Leaves(d) /\ taken'[d] > 0
        /\ sent[d][taken'[d]].kind = kind \/ sent[d][taken'[d]].parts = 2
    BY <2>2, ReadRecord
  <2>4. KeepSocket
    BY <1>8 DEF PerformHttp
  <2> QED
    BY <2>2, <2>3, <2>4 DEF Works, Handled
<1>9. CASE KilledBySend
  <2>1. Read("frame", "killed") /\ KeepSocket
    BY <1>9 DEF KilledBySend
  <2>2. /\ Works("read", "killed") /\ session[d] = "live" /\ UNCHANGED dead
        /\ Takes(d) /\ Leaves(d)
    BY <2>1, ReadRecord
  <2> QED
    BY <2>1, <2>2 DEF Works
<1> QED
  BY <1>3, <1>4, <1>5, <1>6, <1>7, <1>8, <1>9 DEF ServeNext

LEMMA ServeStep ==
  ASSUME SslInv, ServeNext
  PROVE  SslInv'
<1>1. InHand /\ cur.ssl \in Conns /\ cur.fd \in Fds
  <2>1. InHand
    BY DEF ServeNext, UseAfterFree, ReadNothing, ReadFails, PerformClose, PerformFrame,
           PerformHttp, Switch, SwitchFails, Respond, Killed, KilledBySend, Read, Reading,
           Writing, Serve, Goto, InHand
  <2> QED
    BY <2>1 DEF SslInv, TypeInv
<1>2. PICK d \in Conns : d = cur.ssl
  BY <1>1
<1>3. PICK f \in Fds : f = cur.fd
  BY <1>1
<1>4. /\ pc' \in {"clients", "handshake", "respond", "killed", "undefined"}
      /\ cur' = IF pc' \in {"handshake", "respond", "undefined"} THEN cur ELSE NoOne
      /\ UNCHANGED <<clientVars, seen, table, queueVars, ready, running, stopped>>
      /\ dead' = dead \/ (dead' = dead \cup {f} /\ pc' = "clients" /\ KeepSocket)
      /\ Leaves(d)
      /\ pc' = "handshake" => taken'[d] > 0 /\ Handled(sent[d][taken'[d]])
  BY <1>2, <1>3, ServeFacts DEF Works
<1>5. taken' = taken \/ (taken[d] < Len(sent[d]) /\ taken' = [taken EXCEPT ![d] = @ + 1])
  BY <1>2, <1>3, ServeFacts DEF Takes
<1>6. KeepSocket \/ Closes(d, f)
  BY <1>2, <1>3, ServeFacts
<1>7. /\ pc' # "undefined" => session[d] = "live"
      /\ pc' = "undefined" => session[d] # "live" /\ KeepSocket
  BY <1>2, <1>3, ServeFacts
<1>8. IF stopped THEN session[d] = "freed"
      ELSE /\ owner[f] = d /\ f \notin ready \cup dead
           /\ f \in Keys /\ Ssl(f) = d /\ session[d] = "live"
  <2>1. CASE stopped
    BY <1>1, <1>2, <2>1 DEF SslInv, TurnInv
  <2>2. CASE ~stopped
    <3>1. owner[f] = d /\ f \notin ready \cup dead
      BY <1>1, <1>2, <1>3, <2>2 DEF SslInv, TurnInv
    <3>2. Ssl(f) = d /\ session[d] = "live"
      BY <3>1, SslAssumption DEF SslInv, TableInv, SessionOfSocket
    <3> QED
      BY <2>2, <3>1, <3>2, KeyEntry DEF SslInv
  <2> QED
    BY <2>1, <2>2
<1> USE DEF clientVars, queueVars
<1>9. Keys' = Keys /\ Keys \subseteq Fds /\ \A g \in Fds : Ssl(g)' = Ssl(g)
  BY <1>4 DEF Keys, Ssl
<1>10. \A e \in Conns : taken'[e] <= Len(sent[e]) /\ (e # d => taken'[e] = taken[e])
  BY <1>5 DEF SslInv, TypeInv, TypeOK, KeptInv
<1>11. \A e \in Conns \ {d} : HandledLast(e)' <=> HandledLast(e)
  BY <1>4, <1>10 DEF HandledLast, Last
<1>12. \A e \in Conns : rest'[e] => taken'[e] > 0 /\ Last(e)'.parts = 2
  BY <1>4, <1>10 DEF SslInv, FreeInv, Leaves, Last
<1>13. pc' = "handshake" => HandledLast(cur.ssl)'
  BY <1>2, <1>4 DEF HandledLast, Last
<1>14. owner[f] = d => \A g \in Fds \ {f} : owner[g] # d
  <2>1. \A g \in Fds : owner[g] = d => g \in Keys /\ Ssl(g) = d
    <3>1. \A g \in Fds : owner[g] = d => Ssl(g) = d
      BY SslAssumption DEF SslInv, TableInv, SessionOfSocket
    <3> QED
      BY <3>1, KeyEntry DEF SslInv
  <2> QED
    BY <2>1 DEF SslInv, TableInv
<1>15. CASE KeepSocket
  <2>1. UNCHANGED <<phase, owner, session>>
    BY <1>15 DEF KeepSocket
  <2>2. TypeInv'
    <3>1. /\ pc' \in {"clients", "handshake", "respond", "killed", "undefined"}
          /\ dead' \subseteq Fds /\ rest' \in [Conns -> BOOLEAN]
          /\ cur' \in [fd : Fds, ssl : Conns] \cup {NoOne}
          /\ pc' \in {"handshake", "respond"} => cur' \in [fd : Fds, ssl : Conns]
      BY <1>1, <1>4 DEF SslInv, TypeInv, TypeOK, Leaves
    <3>2. taken' \in [Conns -> Nat]
      <4>1. taken \in [Conns -> Nat]
        BY DEF SslInv, TypeInv, TypeOK
      <4> QED
        BY <1>5, <4>1
    <3> QED
      BY <1>4, <2>1, <3>1, <3>2 DEF SslInv, TypeInv, TypeOK, InHand
  <2>3. TableInv'
    BY <1>4, <1>9, <2>1 DEF SslInv, TableInv, SessionOfSocket
  <2>4. TurnInv'
    BY <1>1, <1>2, <1>3, <1>4, <1>7, <1>8, <2>1, SslAssumption
       DEF SslInv, TurnInv, InHand
  <2>5. StopInv'
    BY <1>4, <2>1 DEF SslInv, StopInv
  <2>6. KeptInv'
    <3>1. \A e \in Conns : taken'[e] <= Len(sent[e]) /\ (e # d => taken'[e] = taken[e])
      BY <1>10
    <3>2. ASSUME NEW e \in Conns, session[e] = "live", ~CloseRead(e)'
          PROVE  \E g \in Keys : Ssl(g) = e /\ owner[g] = e
      <4>1. CASE e = d
        BY <1>8, <3>2, <4>1
      <4>2. CASE e # d
        BY <1>4, <3>1, <3>2, <4>2 DEF SslInv, KeptInv, CloseRead, Last
      <4> QED
        BY <4>1, <4>2
    <3> QED
      BY <1>4, <1>9, <2>1, <3>1, <3>2 DEF KeptInv
  <2>7. HandshakeInv'
    <3>1. HandshakeFirst'
      BY <1>1, <1>2, <1>4, <1>5 DEF SslInv, TypeInv, TypeOK, HandshakeInv, HandshakeFirst
    <3> QED
      BY <1>1, <1>4, <1>9, <3>1 DEF SslInv, HandshakeInv, InHand
  <2>8. FreeInv'
    <3>1. \A e \in Conns : session'[e] \in {"closed", "twice"} => HandledLast(e)'
      BY <1>8, <1>11, <2>1 DEF SslInv, FreeInv
    <3>2. pc' = "undefined" => stopped' /\ cur' # NoOne /\ session'[cur'.ssl] = "freed"
      <4>1. cur # NoOne
        BY <1>1, SslAssumption DEF NoOne
      <4> QED
        BY <1>2, <1>4, <1>7, <1>8, <2>1, <4>1
    <3>3. \A e \in Conns : session'[e] = "twice" => stopped'
      BY <1>4, <2>1 DEF SslInv, FreeInv
    <3> QED
      BY <1>12, <1>13, <3>1, <3>2, <3>3 DEF FreeInv
  <2> QED
    BY <2>2, <2>3, <2>4, <2>5, <2>6, <2>7, <2>8 DEF SslInv
<1>16. CASE ~KeepSocket
  <2>1. /\ ~stopped /\ session[d] = "live" /\ pc' = "clients" /\ dead' = dead
        /\ owner[f] = d /\ f \notin ready \cup dead /\ f \in Keys /\ Ssl(f) = d
    BY <1>4, <1>6, <1>7, <1>8, <1>16 DEF Closes
  <2>2. /\ owner'[f] = None /\ phase'[d] = "closed"
        /\ \A g \in Fds \ {f} : owner'[g] = owner[g] /\ owner[g] # d
        /\ \A e \in Conns \ {d} : phase'[e] = phase[e] /\ session'[e] = session[e]
        /\ session'[d] = "live" => CloseRead(d)'
        /\ session'[d] # "live" => session'[d] = "closed" /\ HandledLast(d)'
    <3>1. /\ owner' = [owner EXCEPT ![f] = None]
          /\ phase' = [phase EXCEPT ![d] = "closed"]
          /\ \/ session' = [session EXCEPT ![d] = "closed"] /\ HandledLast(d)'
             \/ session' = session /\ CloseRead(d)'
      BY <1>4, <1>6, <1>16 DEF Closes, HandledLast, CloseRead, Last
    <3>2. /\ owner \in [Fds -> Conns \cup {None}]
          /\ session \in [Conns -> {"none", "live", "closed", "freed", "twice"}]
          /\ phase \in [Conns -> {"new", "queued", "accepted", "closed", "refused"}]
      BY DEF SslInv, TypeInv, TypeOK
    <3>3. /\ owner'[f] = None /\ \A g \in Fds \ {f} : owner'[g] = owner[g] /\ owner[g] # d
          /\ phase'[d] = "closed" /\ \A e \in Conns \ {d} : phase'[e] = phase[e]
      BY <1>14, <2>1, <3>1, <3>2
    <3>4. CASE session' = session /\ CloseRead(d)'
      BY <2>1, <3>3, <3>4
    <3>5. CASE session' = [session EXCEPT ![d] = "closed"] /\ HandledLast(d)'
      <4>1. session'[d] = "closed" /\ \A e \in Conns \ {d} : session'[e] = session[e]
        BY <3>2, <3>5
      <4> QED
        BY <3>3, <3>5, <4>1
    <3> QED
      BY <3>1, <3>4, <3>5
  <2>3. TypeInv'
    <3>1. taken' \in [Conns -> Nat]
      <4>1. taken \in [Conns -> Nat]
        BY DEF SslInv, TypeInv, TypeOK
      <4> QED
        BY <1>5, <4>1
    <3>2. /\ owner' \in [Fds -> Conns \cup {None}]
          /\ session' \in [Conns -> {"none", "live", "closed", "freed", "twice"}]
          /\ phase' \in [Conns -> {"new", "queued", "accepted", "closed", "refused"}]
      <4>1. /\ owner \in [Fds -> Conns \cup {None}]
            /\ session \in [Conns -> {"none", "live", "closed", "freed", "twice"}]
            /\ phase \in [Conns -> {"new", "queued", "accepted", "closed", "refused"}]
        BY DEF SslInv, TypeInv, TypeOK
      <4>2. /\ owner' = [owner EXCEPT ![f] = None] /\ phase' = [phase EXCEPT ![d] = "closed"]
            /\ session' = session \/ session' = [session EXCEPT ![d] = "closed"]
        BY <1>6, <1>16 DEF Closes
      <4> QED
        BY <4>1, <4>2
    <3> QED
      BY <1>4, <2>1, <3>1, <3>2 DEF SslInv, TypeInv, TypeOK, InHand, Leaves
  <2>4. TableInv'
    <3>1. SessionOfSocket'
      <4>1. \A g \in Fds : owner[g] # None =>
              owner[g] \in Conns /\ Ssl(g) = owner[g] /\ session[owner[g]] = "live"
        BY DEF SslInv, TypeInv, TypeOK, TableInv, SessionOfSocket
      <4> QED
        BY <1>9, <2>2, <4>1 DEF SessionOfSocket
    <3>2. phase[d] # "queued"
      BY <2>1 DEF SslInv, TableInv
    <3>3. \A i \in 1..Len(backlog) : backlog[i] \in Conns \ {d}
      BY <3>2 DEF SslInv, TypeInv, TableInv
    <3>4. \A g \in Keys : Ssl(g) \in Conns
      BY <1>9, KeyEntry DEF SslInv
    <3>5. session'[d] \in {"live", "closed"}
      BY <2>2
    <3> QED
      BY <1>4, <1>9, <2>2, <3>1, <3>3, <3>4, <3>5 DEF SslInv, TableInv
  <2>5. TurnInv'
    <3>1. \A g \in ready \cup dead : g \in Fds \ {f} /\ owner'[g] = owner[g]
      BY <2>1, <2>2 DEF SslInv, TypeInv, TypeOK
    <3> QED
      BY <1>4, <2>1, <3>1 DEF SslInv, TurnInv, InHand
  <2>6. StopInv'
    BY <1>4, <2>1 DEF StopInv
  <2>7. HandshakeInv'
    <3>1. HandshakeFirst'
      BY <1>1, <1>2, <1>4, <1>5 DEF SslInv, TypeInv, TypeOK, HandshakeInv, HandshakeFirst
    <3> QED
      BY <1>4, <1>9, <2>1, <3>1 DEF SslInv, HandshakeInv, InHand
  <2>8. KeptInv'
    <3>1. \A e \in Conns : taken'[e] <= Len(sent[e]) /\ (e # d => taken'[e] = taken[e])
      BY <1>10
    <3>2. ASSUME NEW e \in Conns \ {d}, session'[e] = "live", ~CloseRead(e)'
          PROVE  \E g \in Keys : Ssl(g) = e /\ owner'[g] = e
      <4>1. PICK g \in Keys : Ssl(g) = e /\ owner[g] = e
        BY <1>4, <2>2, <3>1, <3>2 DEF SslInv, KeptInv, CloseRead, Last
      <4> QED
        BY <1>9, <2>1, <2>2, <4>1
    <3> QED
      BY <1>4, <1>9, <2>2, <3>1, <3>2 DEF KeptInv
  <2>9. FreeInv'
    <3>1. \A e \in Conns : session'[e] \in {"closed", "twice"} => HandledLast(e)'
      BY <1>11, <2>2 DEF SslInv, FreeInv
    <3>2. \A e \in Conns : session'[e] = "twice" => stopped'
      BY <1>4, <2>2 DEF SslInv, FreeInv
    <3> QED
      BY <1>12, <2>1, <3>1, <3>2 DEF FreeInv
  <2> QED
    BY <2>3, <2>4, <2>5, <2>6, <2>7, <2>8, <2>9 DEF SslInv
<1> QED
  BY <1>15, <1>16

-----------------------------------------------------------------------------
(* closeClient() for each of a set of descriptors. *)

(* Only the entries of fds go, with their sessions and their sockets. *)
LEMMA CloseFacts ==
  ASSUME SslInv, NEW fds \in SUBSET Fds, NEW next, CloseClients(fds, next)
  PROVE  /\ session' \in [Conns -> {"none", "live", "closed", "freed", "twice"}]
         /\ owner' \in [Fds -> Conns \cup {None}]
         /\ table' \in [Fds -> [ssl : Conns, done : BOOLEAN] \cup {NoEntry}]
         /\ \A fd \in Fds \ fds : table'[fd] = table[fd] /\ owner'[fd] = owner[fd]
         /\ \A fd \in fds : table'[fd] = NoEntry /\ owner'[fd] = None
         /\ \A fd \in fds \cap Keys :
              session'[Ssl(fd)] = IF session[Ssl(fd)] = "live" THEN "freed" ELSE "twice"
         /\ \A d \in Conns : \/ session'[d] = session[d]
                             \/ \E fd \in fds \cap Keys : Ssl(fd) = d
         /\ pc' = next \/ (pc' = "undefined" /\ \E d \in Conns : session'[d] = "twice")
<1>1. \A fd \in Fds : fd \notin Keys => owner[fd] = None
  BY KeyEntry DEF SslInv, TypeInv, TypeOK, TableInv, SessionOfSocket
<1>2. \A fd \in Keys : fd \in Fds /\ Ssl(fd) \in Conns
  BY KeyEntry DEF SslInv, Keys
<1>3. \A d \in Conns : session'[d] = IF d \notin Freed(fds) THEN session[d]
                                     ELSE IF session[d] = "live" THEN "freed" ELSE "twice"
  BY DEF CloseClients
<1>4. \A d \in Conns : d \in Freed(fds) <=> \E fd \in fds \cap Keys : Ssl(fd) = d
  BY DEF Freed
<1>5. pc' = next \/ (pc' = "undefined" /\ \E d \in Conns : session'[d] = "twice")
  <2>1. \A d \in Freed(fds) : d \in Conns
    BY DEF Freed
  <2> QED
    BY <1>3, <2>1 DEF CloseClients
<1>6. session' \in [Conns -> {"none", "live", "closed", "freed", "twice"}]
  <2>1. session' = [d \in Conns |-> session'[d]]
    BY DEF CloseClients
  <2>2. \A d \in Conns : session'[d] \in {"none", "live", "closed", "freed", "twice"}
    BY <1>3 DEF SslInv, TypeInv, TypeOK
  <2> QED
    BY <2>1, <2>2
<1> QED
  BY <1>1, <1>2, <1>3, <1>4, <1>5, <1>6 DEF CloseClients, SslInv, TypeInv, TypeOK

(* Before stop(), each client to be closed has its live session. *)
LEMMA SweepStep ==
  ASSUME SslInv, Sweep
  PROVE  SslInv'
<1>1. /\ pc = "clients" /\ ready = {} /\ dead' = {} /\ CloseClients(dead, "check")
      /\ phase' = [d \in Conns |-> IF d \in Ended(dead) THEN "closed" ELSE phase[d]]
      /\ UNCHANGED <<clientVars, streamVars, queueVars, ready, cur, running, stopped>>
  BY DEF Sweep
<1>2. dead \in SUBSET Fds
  BY DEF SslInv, TypeInv, TypeOK
<1>3. /\ session' \in [Conns -> {"none", "live", "closed", "freed", "twice"}]
      /\ owner' \in [Fds -> Conns \cup {None}]
      /\ table' \in [Fds -> [ssl : Conns, done : BOOLEAN] \cup {NoEntry}]
      /\ \A fd \in Fds \ dead : table'[fd] = table[fd] /\ owner'[fd] = owner[fd]
      /\ \A fd \in dead : table'[fd] = NoEntry /\ owner'[fd] = None
      /\ \A fd \in dead \cap Keys :
           session'[Ssl(fd)] = IF session[Ssl(fd)] = "live" THEN "freed" ELSE "twice"
      /\ \A d \in Conns : \/ session'[d] = session[d]
                          \/ \E fd \in dead \cap Keys : Ssl(fd) = d
      /\ pc' = "check" \/ (pc' = "undefined" /\ \E d \in Conns : session'[d] = "twice")
  BY <1>1, <1>2, CloseFacts
<1>4. \A fd \in dead \cap Keys : session[Ssl(fd)] = "live"
  <2>1. CASE stopped
    BY <2>1 DEF SslInv, StopInv, Keys
  <2>2. CASE ~stopped
    BY <1>2, <2>2 DEF SslInv, TurnInv, TableInv, SessionOfSocket
  <2> QED
    BY <2>1, <2>2
<1>5. /\ pc' = "check"
      /\ \A d \in Conns : session'[d] \in {"closed", "twice"} => session'[d] = session[d]
  <2>1. \A d \in Freed(dead) : session[d] = "live"
    BY <1>4 DEF Freed
  <2>2. pc' = "check"
    BY <1>1, <2>1 DEF CloseClients
  <2> QED
    BY <1>3, <1>4, <2>2
<1> USE DEF clientVars, streamVars, queueVars
<1>6. /\ Keys' = Keys \ dead /\ \A g \in Fds \ dead : Ssl(g)' = Ssl(g)
      /\ Keys \subseteq Fds /\ \A g \in Keys : Ssl(g) \in Conns
  <2>1. Keys \subseteq Fds /\ Keys' = Keys \ dead
    BY <1>2, <1>3 DEF Keys
  <2>2. \A g \in Fds \ dead : Ssl(g)' = Ssl(g)
    BY <1>3 DEF Ssl
  <2> QED
    BY <2>1, <2>2, KeyEntry DEF SslInv
<1>7. /\ phase' \in [Conns -> {"new", "queued", "accepted", "closed", "refused"}]
      /\ \A d \in Conns : phase'[d] = phase[d] \/ (phase'[d] = "closed" /\ d \in Ended(dead))
  BY <1>1 DEF SslInv, TypeInv, TypeOK
<1>8. TypeInv'
  BY <1>1, <1>3, <1>5, <1>7 DEF SslInv, TypeInv, TypeOK, InHand
<1>9. TableInv'
  <2>1. SessionOfSocket'
    <3> SUFFICES ASSUME NEW fd \in Fds, owner'[fd] # None
                 PROVE  Ssl(fd)' = owner'[fd] /\ session'[owner'[fd]] = "live"
      BY DEF SessionOfSocket
    <3>1. fd \notin dead /\ owner'[fd] = owner[fd] /\ Ssl(fd)' = Ssl(fd)
      BY <1>3, <1>6
    <3>2. Ssl(fd) = owner[fd] /\ session[owner[fd]] = "live" /\ owner[fd] \in Conns
      BY <3>1 DEF SslInv, TypeInv, TypeOK, TableInv, SessionOfSocket
    <3>3. fd \in Keys
      BY <3>2, KeyEntry DEF SslInv
    <3>4. ~\E g \in dead \cap Keys : Ssl(g) = owner[fd]
      BY <3>1, <3>2, <3>3 DEF SslInv, TableInv
    <3> QED
      BY <1>3, <3>1, <3>2, <3>4
  <2>2. \A d \in Ended(dead) : phase[d] # "queued"
    <3>1. \A g \in Keys : owner[g] # None => phase[owner[g]] # "queued"
      BY <1>6 DEF SslInv, TableInv, SessionOfSocket
    <3> QED
      BY <3>1, SslAssumption DEF Ended
  <2>3. \A i \in 1..Len(backlog) : backlog[i] \in Conns
    BY DEF SslInv, TypeInv
  <2>4. \A g \in Keys' : session'[Ssl(g)'] = session[Ssl(g)]
    <3> SUFFICES ASSUME NEW g \in Keys'
                 PROVE  session'[Ssl(g)'] = session[Ssl(g)]
      OBVIOUS
    <3>1. g \in Keys /\ g \notin dead /\ Ssl(g)' = Ssl(g) /\ Ssl(g) \in Conns
      BY <1>6
    <3>2. ~\E h \in dead \cap Keys : Ssl(h) = Ssl(g)
      BY <3>1 DEF SslInv, TableInv
    <3> QED
      BY <1>3, <3>1, <3>2
  <2> QED
    BY <1>1, <1>6, <1>7, <2>1, <2>2, <2>3, <2>4 DEF SslInv, TableInv
<1>10. TurnInv'
  BY <1>1, <1>5 DEF TurnInv, InHand
<1>11. StopInv'
  BY <1>1, <1>2, <1>3, <1>5 DEF SslInv, StopInv
<1>12. HandshakeInv'
  <2>1. \A g \in Keys' : table'[g] = table[g] /\ Ssl(g)' = Ssl(g) /\ g \in Keys
    BY <1>3, <1>6
  <2> QED
    BY <1>1, <1>5, <2>1 DEF SslInv, HandshakeInv, InHand, HandshakeFirst
<1>13. KeptInv'
  <2>1. \A d \in Conns : CloseRead(d)' <=> CloseRead(d)
    BY <1>1 DEF CloseRead, Last
  <2>2. ASSUME NEW d \in Conns, session'[d] = "live", ~CloseRead(d)
        PROVE  \E g \in Keys' : Ssl(g)' = d /\ owner'[g] = d
    <3>1. session[d] = "live" /\ ~\E g \in dead \cap Keys : Ssl(g) = d
      BY <1>3, <2>2
    <3>2. PICK g \in Keys : Ssl(g) = d /\ owner[g] = d
      BY <2>2, <3>1 DEF SslInv, KeptInv
    <3> QED
      BY <1>3, <1>6, <3>1, <3>2
  <2> QED
    BY <1>1, <2>1, <2>2 DEF SslInv, KeptInv
<1>14. FreeInv'
  <2>1. \A d \in Conns : HandledLast(d)' <=> HandledLast(d)
    BY <1>1 DEF HandledLast, Last
  <2>2. \A d \in Conns : rest'[d] => taken'[d] > 0 /\ Last(d)'.parts = 2
    BY <1>1 DEF SslInv, FreeInv, Last
  <2> QED
    BY <1>1, <1>5, <2>1, <2>2 DEF SslInv, FreeInv
<1> QED
  BY <1>8, <1>9, <1>10, <1>11, <1>12, <1>13, <1>14 DEF SslInv

(* stop() leaves no entry and no open socket, wherever the loop is. *)
LEMMA StopStep ==
  ASSUME SslInv, Stop
  PROVE  SslInv'
<1>1. /\ running /\ ~stopped /\ stopped' = TRUE /\ running' = FALSE
      /\ CloseClients(Keys, pc)
      /\ lsn' = "closed" /\ backlog' = <<>>
      /\ phase' = [d \in Conns |-> IF d \in Ended(Keys) THEN "closed"
                                   ELSE IF phase[d] = "queued" THEN "refused" ELSE phase[d]]
      /\ UNCHANGED <<clientVars, streamVars, ready, dead, cur>>
  BY DEF Stop, StopWith
<1>2. Keys \in SUBSET Fds
  BY DEF Keys
<1>3. /\ session' \in [Conns -> {"none", "live", "closed", "freed", "twice"}]
      /\ owner' \in [Fds -> Conns \cup {None}]
      /\ table' \in [Fds -> [ssl : Conns, done : BOOLEAN] \cup {NoEntry}]
      /\ \A fd \in Fds \ Keys : table'[fd] = table[fd] /\ owner'[fd] = owner[fd]
      /\ \A fd \in Keys : table'[fd] = NoEntry /\ owner'[fd] = None
      /\ \A fd \in Keys :
           session'[Ssl(fd)] = IF session[Ssl(fd)] = "live" THEN "freed" ELSE "twice"
      /\ \A d \in Conns : \/ session'[d] = session[d]
                          \/ \E fd \in Keys : Ssl(fd) = d
      /\ pc' = pc \/ (pc' = "undefined" /\ \E d \in Conns : session'[d] = "twice")
  BY <1>1, <1>2, CloseFacts
<1>4. pc' \in {pc, "undefined"}
  BY <1>3
<1>5. \A fd \in Fds : fd \notin Keys => owner[fd] = None
  BY KeyEntry DEF SslInv, TypeInv, TypeOK, TableInv, SessionOfSocket
<1>6. \A fd \in Fds : table'[fd] = NoEntry /\ owner'[fd] = None
  BY <1>3, <1>5 DEF Keys
<1>7. Keys' = {}
  BY <1>6 DEF Keys
<1> USE DEF clientVars, streamVars
<1>8. TypeInv'
  <2>1. phase' \in [Conns -> {"new", "queued", "accepted", "closed", "refused"}]
    BY <1>1 DEF SslInv, TypeInv, TypeOK
  <2>2. {running', stopped'} \subseteq BOOLEAN
    BY <1>1
  <2>3. backlog' \in Seq(Conns)
    BY <1>1
  <2> QED
    BY <1>1, <1>3, <1>4, <2>1, <2>2, <2>3 DEF SslInv, TypeInv, TypeOK, InHand
<1>9. TableInv'
  BY <1>1, <1>6, <1>7 DEF TableInv, SessionOfSocket
<1>10. TurnInv'
  <2>1. InHand' => session'[cur'.ssl] = "freed"
    <3> SUFFICES ASSUME InHand'
                 PROVE  session'[cur.ssl] = "freed"
      BY <1>1
    <3>1. InHand
      BY <1>4 DEF InHand
    <3>2. cur.fd \in Fds /\ cur.ssl \in Conns /\ owner[cur.fd] = cur.ssl
      BY <1>1, <3>1 DEF SslInv, TypeInv, TurnInv
    <3>3. owner[cur.fd] # None
      BY <3>2, SslAssumption
    <3>4. Ssl(cur.fd) = cur.ssl /\ session[cur.ssl] = "live"
      BY <3>2, <3>3 DEF SslInv, TableInv, SessionOfSocket
    <3>5. cur.fd \in Keys
      BY <1>5, <3>2, <3>3
    <3> QED
      BY <1>3, <3>4, <3>5
  <2> QED
    BY <1>1, <1>4, <2>1 DEF SslInv, TurnInv, NoUseAfterFree
<1>11. StopInv'
  BY <1>1, <1>4, <1>6 DEF SslInv, StopInv
<1>12. HandshakeInv'
  BY <1>1, <1>4, <1>7 DEF SslInv, HandshakeInv, InHand, HandshakeFirst
<1>13. KeptInv'
  <2>1. \A d \in Conns : CloseRead(d)' <=> CloseRead(d)
    BY <1>1 DEF CloseRead, Last
  <2>2. ASSUME NEW d \in Conns, session'[d] = "live"
        PROVE  CloseRead(d)
    <3>1. session[d] = "live" /\ ~\E g \in Keys : Ssl(g) = d
      BY <1>3, <2>2
    <3> QED
      BY <3>1 DEF SslInv, KeptInv
  <2> QED
    BY <1>1, <2>1, <2>2 DEF SslInv, KeptInv
<1>14. FreeInv'
  <2>1. \A d \in Conns : HandledLast(d)' <=> HandledLast(d)
    BY <1>1 DEF HandledLast, Last
  <2>2. \A d \in Conns : rest'[d] => taken'[d] > 0 /\ Last(d)'.parts = 2
    BY <1>1 DEF SslInv, FreeInv, Last
  <2>3. \A d \in Conns : session'[d] \in {"closed", "twice"} => session[d] \in {"closed", "twice"}
    <3>1. \A fd \in Keys : session[Ssl(fd)] \in {"live", "closed"}
      BY DEF SslInv, TableInv
    <3> QED
      BY <1>3, <3>1
  <2>4. pc' = "handshake" => HandledLast(cur.ssl)'
    BY <1>1, <1>4 DEF SslInv, FreeInv, HandledLast, Last
  <2>5. pc # "undefined"
    BY DEF Stop, StopWith, Over
  <2> QED
    BY <1>1, <1>3, <2>1, <2>2, <2>3, <2>4, <2>5 DEF SslInv, FreeInv
<1> QED
  BY <1>8, <1>9, <1>10, <1>11, <1>12, <1>13, <1>14 DEF SslInv

-----------------------------------------------------------------------------
LEMMA NextSslInv == SslInv /\ [Next]_vars => SslInv'
<1> SUFFICES ASSUME SslInv, [Next]_vars
             PROVE  SslInv'
  OBVIOUS
<1>1. CASE UNCHANGED vars
  <2> USE <1>1 DEF vars, clientVars, streamVars, socketVars, queueVars, loopVars, SslInv
  <2>1. TypeInv'
    BY DEF TypeInv, TypeOK, InHand
  <2>2. Keys' = Keys /\ \A fd \in Fds : Ssl(fd)' = Ssl(fd)
    BY DEF Keys, Ssl
  <2>3. TableInv'
    BY <2>2 DEF TableInv, SessionOfSocket, Keys
  <2>4. TurnInv' /\ StopInv'
    BY DEF TurnInv, InHand, StopInv
  <2>5. HandshakeInv' /\ KeptInv' /\ FreeInv'
    BY <2>2 DEF HandshakeInv, InHand, HandshakeFirst, KeptInv, CloseRead, Keys, FreeInv,
                HandledLast, Last
  <2> QED
    BY <2>1, <2>3, <2>4, <2>5
<1>2. CASE ClientNext
  BY <1>2, ClientStep, ConnectStep DEF ClientNext
<1>3. CASE LoopNext
  BY <1>3, TurnStep, AcceptStep, AcceptFailsStep, HandleStep, ServeStep, SweepStep
     DEF LoopNext, ServeNext
<1> QED
  BY <1>1, <1>2, <1>3, StopStep DEF Next

THEOREM SslInvariant == Spec => []SslInv
  BY InitSslInv, NextSslInv, PTL DEF Spec

(* An open socket is served with the live session of the connection behind it,
   although accept() hands numbers out again while ssl_clients_ still has
   entries for them. *)
THEOREM SessionAlwaysOfSocket == Spec => []SessionOfSocket
<1>1. SslInv => SessionOfSocket
  BY DEF SslInv, TableInv
<1> QED
  BY <1>1, SslInvariant, PTL

(* A session is freed a second time by nothing but stop(), and then only if a
   handler had its WebSocket closed (WebSocket::close()); and the loop works
   with a session that was freed only when stop() has freed the one in hand. *)
THEOREM NeverUsedAfterFree == Spec => []NoUseAfterFree
<1>1. SslInv => NoUseAfterFree
  BY DEF SslInv, FreeInv, HandledLast, NoUseAfterFree
<1> QED
  BY <1>1, SslInvariant, PTL

(* No request is read before SSL_accept() has succeeded on its own connection. *)
THEOREM HandshakeAlwaysFirst == Spec => []HandshakeFirst
<1>1. SslInv => HandshakeFirst
  BY DEF SslInv, HandshakeInv
<1> QED
  BY <1>1, SslInvariant, PTL

(* Only a Close frame makes handleClientSocket() lose a live session. *)
THEOREM SessionsAlwaysKept == Spec => []SessionsKept
<1>1. SslInv => SessionsKept
  BY DEF SslInv, KeptInv, SessionsKept, CloseRead
<1> QED
  BY <1>1, SslInvariant, PTL

-----------------------------------------------------------------------------
(* The promise to each connection (TlsService): an accepted connection has a
   descriptor; who has sent a record has sent its handshake; who is marked dead
   has ended, and was read to the end if it did so in order. *)

Finished(d) == peer[d] = "rst" \/ (peer[d] = "fin" /\ taken[d] = Len(sent[d]))

ServedInv ==
  /\ \A d \in Conns : phase[d] = "accepted" <=> \E fd \in Fds : owner[fd] = d
  /\ \A d \in Conns : sent[d] # <<>> => hello[d] = Flights
  /\ ~stopped => \A fd \in dead : Finished(owner[fd])

Serves == ServedInv' /\ [Service!Next]_(Service!vars)

LEMMA InitServed == Init => ServedInv /\ Service!Init
<1> SUFFICES ASSUME Init
             PROVE  ServedInv /\ Service!Init
  OBVIOUS
<1>1. ServedInv
  BY SslAssumption DEF Init, ServedInv
<1>2. /\ [d \in Conns |-> hello[d] = Flights] = [d \in Conns |-> FALSE]
      /\ [d \in Conns |-> seen[d] = Flights] = [d \in Conns |-> FALSE]
  <2>1. \A d \in Conns : (hello[d] = Flights) = FALSE /\ (seen[d] = Flights) = FALSE
    BY DEF Init, Flights
  <2> QED
    BY <2>1, Zenon
<1> QED
  BY <1>1, <1>2 DEF Init, Service!Init

(* The steps that no connection sees. *)
LEMMA QuietServes ==
  ASSUME ServedInv,
         UNCHANGED <<peer, hello, sent, phase, owner, seen, taken, dead, stopped>>
  PROVE  Serves
<1>1. ServedInv'
  BY DEF ServedInv, Finished
<1>2. UNCHANGED Service!vars
  BY DEF Service!vars
<1> QED
  BY <1>1, <1>2 DEF Serves

LEMMA ClientServes ==
  ASSUME SslInv, ServedInv, NEW d \in Conns,
         \/ Connect(d) \/ Hello(d)
         \/ \E r \in Records : Send(d, r)
         \/ \E how \in {"fin", "rst"} : Leave(d, how)
  PROVE  Serves
<1> DEFINE told == [e \in Conns |-> hello[e] = Flights]
<1>1. /\ phase \in [Conns -> {"new", "queued", "accepted", "closed", "refused"}]
      /\ peer \in [Conns -> {"open", "fin", "rst"}]
      /\ hello \in [Conns -> 0..Flights]
      /\ sent \in [Conns -> Seq(Records)]
      /\ \A fd \in dead : fd \in Fds
      /\ \A fd \in Fds : owner[fd] \in Conns \cup {None}
      /\ ~stopped => \A fd \in dead : owner[fd] # None
  BY DEF SslInv, TypeInv, TypeOK, TurnInv
<1>2. UNCHANGED <<streamVars, owner, lsn, loopVars, running, stopped>>
  BY DEF Connect, Hello, Send, Leave, Client, socketVars, queueVars
<1> USE DEF streamVars, loopVars, clientVars
<1>3. CASE Connect(d)
  <2>1. phase[d] = "new" /\ phase' = [phase EXCEPT ![d] = "queued"] /\ UNCHANGED clientVars
        /\ lsn = "open"
    BY <1>3 DEF Connect
  <2>2. \A e \in Conns : phase'[e] = "accepted" <=> phase[e] = "accepted"
    BY <1>1, <2>1
  <2>3. ServedInv'
    BY <1>2, <2>1, <2>2 DEF ServedInv, Finished
  <2>4. ~stopped
    BY <2>1 DEF SslInv, StopInv
  <2>5. Service!Connect(d)
    BY <1>2, <2>1, <2>4 DEF Service!Connect, Service!Moves
  <2> QED
    BY <2>3, <2>5 DEF Serves, Service!Next
<1>4. CASE ~Connect(d)
  <2>1. /\ phase[d] \in {"queued", "accepted"} /\ peer[d] = "open"
        /\ phase' = phase
    BY <1>4 DEF Hello, Send, Leave, Client, Connected, socketVars
  <2>2. Service!Client(d)
    BY <1>2, <2>1 DEF Service!Client
  <2>3. \A fd \in dead : ~stopped => owner[fd] \in Conns \ {d}
    BY <1>1, <2>1 DEF ServedInv, Finished
  <2>4. CASE Hello(d)
    <3>1. /\ hello[d] < Flights /\ hello' = [hello EXCEPT ![d] = @ + 1]
          /\ UNCHANGED <<peer, sent>>
      BY <2>4 DEF Hello
    <3>2. hello'[d] = hello[d] + 1 /\ \A e \in Conns \ {d} : hello'[e] = hello[e]
      BY <1>1, <3>1
    <3>3. ServedInv'
      BY <1>1, <1>2, <2>1, <3>1, <3>2 DEF ServedInv, Finished, Flights
    <3>4. told' = told \/ told' = [told EXCEPT ![d] = TRUE]
      <4>1. \A e \in Conns \ {d} : (hello'[e] = Flights) = (hello[e] = Flights)
        BY <3>2
      <4>2. (hello[d] = Flights) = FALSE
        BY <3>1, <1>1 DEF Flights
      <4>3. CASE hello'[d] = Flights
        <5>1. told' = [told EXCEPT ![d] = TRUE]
          BY <4>1, <4>3
        <5> QED
          BY <5>1
      <4>4. CASE hello'[d] # Flights
        <5>1. told' = told
          BY <4>1, <4>2, <4>4
        <5> QED
          BY <5>1
      <4> QED
        BY <4>3, <4>4
    <3>5. CASE told' = told
      BY <1>2, <2>1, <3>1, <3>3, <3>5 DEF Serves, Service!vars
    <3>6. CASE told' = [told EXCEPT ![d] = TRUE]
      <4>1. Service!Hello(d)
        BY <2>2, <3>1, <3>6 DEF Service!Hello
      <4> QED
        BY <3>3, <4>1 DEF Serves, Service!Next
    <3> QED
      BY <3>4, <3>5, <3>6
  <2>5. CASE \E r \in Records : Send(d, r)
    <3>1. PICK r \in Records : Send(d, r)
      BY <2>5
    <3>2. /\ hello[d] = Flights /\ sent' = [sent EXCEPT ![d] = Append(@, r)]
          /\ UNCHANGED <<peer, hello>>
      BY <3>1 DEF Send
    <3>3. ServedInv'
      <4>1. \A e \in Conns \ {d} : sent'[e] = sent[e]
        BY <1>1, <3>2
      <4> QED
        BY <1>2, <2>1, <2>3, <3>2, <4>1 DEF ServedInv, Finished
    <3>4. Service!Send(d, r)
      BY <2>2, <3>2 DEF Service!Send
    <3> QED
      BY <3>3, <3>4 DEF Serves, Service!Next
  <2>6. CASE \E how \in {"fin", "rst"} : Leave(d, how)
    <3>1. PICK how \in {"fin", "rst"} : Leave(d, how)
      BY <2>6
    <3>2. peer' = [peer EXCEPT ![d] = how] /\ UNCHANGED <<hello, sent>>
      BY <3>1 DEF Leave
    <3>3. ServedInv'
      <4>1. \A e \in Conns \ {d} : peer'[e] = peer[e]
        BY <1>1, <3>2
      <4> QED
        BY <1>2, <2>1, <2>3, <3>2, <4>1 DEF ServedInv, Finished
    <3>4. Service!End(d, how)
      BY <2>2, <3>2 DEF Service!End
    <3> QED
      BY <3>3, <3>4 DEF Serves, Service!Next
  <2> QED
    BY <1>4, <2>4, <2>5, <2>6
<1> QED
  BY <1>3, <1>4

LEMMA AcceptServes ==
  ASSUME SslInv, ServedInv, NEW fd \in Fds, Accept(fd) \/ AcceptFails(fd)
  PROVE  Serves
<1>1. PICK d \in Conns : d = Head(backlog)
  BY QueueHead DEF Accept, AcceptFails
<1>2. phase[d] = "queued" /\ dead = {} /\ owner[fd] = None
  BY <1>1, QueueHead DEF Accept, AcceptFails
<1>3. /\ UNCHANGED <<clientVars, streamVars, dead, cur, stopped>> /\ pc' = "clients"
      /\ \/ phase' = [phase EXCEPT ![d] = "accepted"] /\ owner' = [owner EXCEPT ![fd] = d]
         \/ phase' = [phase EXCEPT ![d] = "closed"] /\ owner' = owner
  BY <1>1 DEF Accept, AcceptFails, Accepts, Enters, Goto
<1> USE DEF clientVars, streamVars
<1>4. Service!Accept(d)
  BY <1>2, <1>3 DEF Service!Accept, Service!Moves
<1>5. /\ phase \in [Conns -> {"new", "queued", "accepted", "closed", "refused"}]
      /\ owner \in [Fds -> Conns \cup {None}]
  BY DEF SslInv, TypeInv, TypeOK
<1>6. \A e \in Conns : phase'[e] = "accepted" <=> \E g \in Fds : owner'[g] = e
  <2>1. \A e \in Conns : phase[e] = "accepted" <=> \E g \in Fds : owner[g] = e
    BY DEF ServedInv
  <2>2. CASE phase' = [phase EXCEPT ![d] = "accepted"] /\ owner' = [owner EXCEPT ![fd] = d]
    <3>1. owner'[fd] = d /\ \A g \in Fds \ {fd} : owner'[g] = owner[g]
      BY <1>5, <2>2
    <3>2. \A e \in Conns : (\E g \in Fds : owner'[g] = e) <=> e = d \/ \E g \in Fds : owner[g] = e
      <4>1. \A e \in Conns : e # None
        BY SslAssumption
      <4>2. \A e \in Conns, g \in Fds : owner'[g] = e => e = d \/ owner[g] = e
        BY <3>1
      <4>3. \A e \in Conns, g \in Fds : owner[g] = e => owner'[g] = e
        BY <1>2, <3>1, <4>1
      <4> QED
        BY <3>1, <4>2, <4>3
    <3>3. \A e \in Conns : phase'[e] = "accepted" <=> (e = d \/ phase[e] = "accepted")
      BY <1>5, <2>2
    <3> QED
      BY <2>1, <3>2, <3>3
  <2>3. CASE phase' = [phase EXCEPT ![d] = "closed"] /\ owner' = owner
    <3>1. \A e \in Conns : phase'[e] = "accepted" <=> phase[e] = "accepted"
      BY <1>2, <1>5, <2>3
    <3> QED
      BY <2>1, <2>3, <3>1
  <2> QED
    BY <1>3, <2>2, <2>3
<1>7. ServedInv'
  BY <1>2, <1>3, <1>6 DEF ServedInv
<1> QED
  BY <1>4, <1>7 DEF Serves, Service!Next

(* What is reported is open, and so its connection accepted. *)
LEMMA ShakeServes ==
  ASSUME SslInv, ServedInv, NEW fd \in Fds, ShakeDone(fd) \/ ShakeMore(fd) \/ ShakeFails(fd)
  PROVE  Serves
<1>1. fd \in Keys /\ fd \in ready /\ pc = "clients"
  BY DEF ShakeDone, ShakeMore, ShakeFails, Shake, Handling
<1>2. PICK d \in Conns : d = Ssl(fd)
  BY <1>1, KeyEntry DEF SslInv
<1>3. ~stopped
  BY <1>1 DEF SslInv, StopInv, Keys
<1>4. owner[fd] = d
  BY <1>1, <1>2, <1>3 DEF SslInv, TurnInv, TableInv, SessionOfSocket
<1>5. phase[d] = "accepted"
  BY <1>4 DEF ServedInv
<1>6. /\ UNCHANGED <<clientVars, taken, phase, owner, stopped>> /\ pc' \in {"read", "clients"}
      /\ seen' = [seen EXCEPT ![d] = hello[d]]
      /\ \/ dead' = dead
         \/ dead' = dead \cup {fd} /\ (peer[d] = "rst" \/ (peer[d] = "fin" /\ hello[d] < Flights))
  BY <1>1, <1>2 DEF ShakeDone, ShakeMore, ShakeFails, Shake, Handling, ToRead
<1> USE DEF clientVars
<1>7. ServedInv'
  <2>1. hello[d] < Flights => taken[d] = Len(sent[d])
    <3>1. taken[d] \in Nat /\ taken[d] <= Len(sent[d]) /\ sent[d] \in Seq(Records)
      BY DEF SslInv, TypeInv, TypeOK, KeptInv
    <3>2. hello[d] < Flights => sent[d] = <<>>
      BY DEF ServedInv, Flights
    <3> QED
      BY <3>1, <3>2
  <2>2. \A g \in dead' : g \in dead \/ (g = fd /\ Finished(d))
    BY <1>6, <2>1 DEF Finished
  <2>3. \A g \in dead' : Finished(owner[g])
    BY <1>3, <1>4, <2>2 DEF ServedInv
  <2> QED
    BY <1>6, <2>3 DEF ServedInv, Finished
<1>8. [Service!Next]_(Service!vars)
  <2> DEFINE shaken == [e \in Conns |-> seen[e] = Flights]
  <2>1. seen \in [Conns -> 0..Flights] /\ seen[d] <= hello[d] /\ hello[d] \in 0..Flights
    BY DEF SslInv, TypeInv, TypeOK, HandshakeInv
  <2>2. seen'[d] = hello[d] /\ \A e \in Conns \ {d} : seen'[e] = seen[e]
    BY <1>6, <2>1
  <2>3. \A e \in Conns \ {d} : (seen'[e] = Flights) = (seen[e] = Flights)
    BY <2>2
  <2>4. CASE hello[d] = Flights
    <3>1. shaken' = [shaken EXCEPT ![d] = TRUE]
      BY <2>2, <2>3, <2>4
    <3>2. Service!Handshake(d)
      BY <1>5, <1>6, <2>4, <3>1 DEF Service!Handshake
    <3> QED
      BY <3>2 DEF Service!Next
  <2>5. CASE hello[d] # Flights
    <3>1. (seen'[d] = Flights) = FALSE /\ (seen[d] = Flights) = FALSE
      BY <2>1, <2>2, <2>5 DEF Flights
    <3>2. shaken' = shaken
      BY <2>3, <3>1
    <3> QED
      BY <1>6, <3>2 DEF Service!vars
  <2> QED
    BY <2>4, <2>5
<1> QED
  BY <1>7, <1>8 DEF Serves

(* The connection in hand is accepted, has shaken hands, and is not marked dead. *)
LEMMA InHandServed ==
  ASSUME SslInv, ServedInv, InHand, session[cur.ssl] = "live",
         NEW d \in Conns, d = cur.ssl, NEW f \in Fds, f = cur.fd
  PROVE  /\ ~stopped /\ owner[f] = d /\ f \notin dead
         /\ phase[d] = "accepted" /\ seen[d] = Flights
         /\ \A g \in Fds \ {f} : owner[g] # d
<1>1. ~stopped /\ owner[f] = d /\ f \notin dead
  BY DEF SslInv, TurnInv
<1>2. phase[d] = "accepted"
  BY <1>1 DEF ServedInv
<1>3. seen[d] = Flights
  BY DEF SslInv, HandshakeInv
<1>4. \A g \in Fds : owner[g] = d => g \in Keys /\ Ssl(g) = d
  <2>1. \A g \in Fds : owner[g] = d => Ssl(g) = d
    BY SslAssumption DEF SslInv, TableInv, SessionOfSocket
  <2> QED
    BY <2>1, KeyEntry DEF SslInv
<1> QED
  BY <1>1, <1>2, <1>3, <1>4 DEF SslInv, TableInv

(* The connection in hand may be closed for the last record taken. *)
Ends(d, f) ==
  \/ UNCHANGED <<phase, owner>>
  \/ /\ taken'[d] > 0 /\ MayClose(sent[d][taken'[d]])
     /\ owner' = [owner EXCEPT ![f] = None]
     /\ phase' = [phase EXCEPT ![d] = "closed"]

LEMMA RecordServes ==
  ASSUME SslInv, ServedInv, InHand, session[cur.ssl] = "live",
         NEW d \in Conns, d = cur.ssl, NEW f \in Fds, f = cur.fd,
         UNCHANGED <<clientVars, seen, dead, stopped>>,
         Takes(d), Ends(d, f)
  PROVE  Serves
<1>1. /\ ~stopped /\ owner[f] = d /\ f \notin dead
      /\ phase[d] = "accepted" /\ seen[d] = Flights
      /\ \A g \in Fds \ {f} : owner[g] # d
  BY InHandServed
<1>2. /\ phase \in [Conns -> {"new", "queued", "accepted", "closed", "refused"}]
      /\ owner \in [Fds -> Conns \cup {None}] /\ taken \in [Conns -> Nat]
      /\ \A g \in dead : g \in Fds \ {f} /\ owner[g] \in Conns \ {d}
  BY <1>1 DEF SslInv, TypeInv, TypeOK, TurnInv
<1> USE DEF clientVars
<1>3. \A e \in Conns \ {d} : taken'[e] = taken[e]
  BY <1>2 DEF Takes
<1>4. ServedInv'
  <2>1. \A g \in dead : owner'[g] = owner[g]
    BY <1>2 DEF Ends
  <2>2. \A g \in dead : Finished(owner[g])'
    BY <1>1, <1>2, <1>3, <2>1 DEF ServedInv, Finished
  <2>3. \A e \in Conns : phase'[e] = "accepted" <=> \E g \in Fds : owner'[g] = e
    <3>1. CASE UNCHANGED <<phase, owner>>
      BY <3>1 DEF ServedInv
    <3>2. CASE /\ owner' = [owner EXCEPT ![f] = None]
               /\ phase' = [phase EXCEPT ![d] = "closed"]
      <4>1. /\ phase'[d] = "closed" /\ owner'[f] = None
            /\ \A e \in Conns \ {d} : phase'[e] = phase[e]
            /\ \A g \in Fds \ {f} : owner'[g] = owner[g]
        BY <1>2, <3>2
      <4> QED
        BY <1>1, <4>1, SslAssumption DEF ServedInv
    <3> QED
      BY <3>1, <3>2 DEF Ends
  <2> QED
    BY <2>1, <2>2, <2>3 DEF ServedInv
<1>5. [Service!Next]_(Service!vars)
  <2>1. CASE taken' = taken
    <3>1. CASE UNCHANGED phase
      BY <2>1, <3>1 DEF Service!vars
    <3>2. CASE ~UNCHANGED phase
      <4>1. Service!Close(d)
        BY <1>1, <2>1, <3>2 DEF Ends, Service!Close, Service!Closable, Service!Moves
      <4> QED
        BY <4>1 DEF Service!Next
    <3> QED
      BY <3>1, <3>2
  <2>2. CASE taken' # taken
    <3>1. taken[d] < Len(sent[d]) /\ peer[d] # "rst" /\ taken' = [taken EXCEPT ![d] = @ + 1]
      BY <2>2 DEF Takes
    <3>2. \/ UNCHANGED phase
          \/ Service!Closable(d, taken'[d]) /\ Service!Moves(d, "accepted", "closed")
      BY <1>1 DEF Ends, Service!Closable, Service!Moves
    <3>3. Service!Take(d)
      BY <1>1, <3>1, <3>2 DEF Service!Take
    <3> QED
      BY <3>3 DEF Service!Next
  <2> QED
    BY <2>1, <2>2
<1> QED
  BY <1>4, <1>5 DEF Serves

LEMMA ServeServes ==
  ASSUME SslInv, ServedInv, ServeNext
  PROVE  Serves
<1>1. InHand
  BY ServeStep DEF ServeNext, UseAfterFree, ReadNothing, ReadFails, PerformClose, PerformFrame,
     PerformHttp, Switch, SwitchFails, Respond, Killed, KilledBySend, Read, Reading,
     Writing, Serve, Goto, InHand
<1>2. PICK d \in Conns : d = cur.ssl
  BY <1>1 DEF SslInv, TypeInv
<1>3. PICK f \in Fds : f = cur.fd
  BY <1>1 DEF SslInv, TypeInv
<1>4. /\ UNCHANGED <<clientVars, seen, stopped>>
      /\ \/ dead' = dead
         \/ ReadFails /\ dead' = dead \cup {f} /\ pc' = "clients" /\ KeepSocket /\ taken' = taken
      /\ Takes(d)
      /\ KeepSocket \/ Closes(d, f)
      /\ pc' # "undefined" => session[d] = "live"
      /\ pc' = "undefined" => session[d] # "live" /\ KeepSocket
  BY <1>2, <1>3, ServeFacts DEF Works
<1>5. CASE UseAfterFree
  <2>1. UNCHANGED <<peer, hello, sent, phase, owner, seen, taken, dead, stopped>>
    BY <1>4, <1>5 DEF UseAfterFree, KeepSocket, clientVars
  <2> QED
    BY <2>1, QuietServes
<1>6. CASE ReadFails
  <2>1. /\ UNCHANGED <<clientVars, phase, owner, seen, taken, stopped>> /\ pc' = "clients"
        /\ dead' = dead \cup {f} /\ session[cur.ssl] = "live" /\ Broken
    BY <1>3, <1>6 DEF ReadFails, Reading, Serve, Goto, KeepSocket, c
  <2>2. owner[f] = d
    BY <1>1, <1>2, <1>3, <2>1, InHandServed
  <2>3. Finished(d)
    <3>1. taken[d] \in Nat /\ taken[d] <= Len(sent[d]) /\ sent[d] \in Seq(Records)
      BY DEF SslInv, TypeInv, TypeOK, KeptInv
    <3> QED
      BY <1>2, <2>1, <3>1 DEF Finished, Broken, Unread, c
  <2>4. ServedInv'
    <3>1. \A g \in dead' : ~stopped => Finished(owner[g])
      BY <2>1, <2>2, <2>3 DEF ServedInv
    <3> QED
      BY <2>1, <3>1 DEF ServedInv, Finished, clientVars
  <2>5. UNCHANGED Service!vars
    BY <2>1 DEF Service!vars, clientVars
  <2> QED
    BY <2>4, <2>5 DEF Serves
<1>7. CASE ~UseAfterFree /\ ~ReadFails
  <2>1. pc' # "undefined" /\ dead' = dead
    <3>1. pc' # "undefined"
      BY <1>7 DEF ServeNext, ReadNothing, PerformClose, PerformFrame, PerformHttp, Answer,
         Switch, SwitchFails, Respond, Killed, KilledBySend, Read, Reading, Writing, Serve, Goto
    <3> QED
      BY <1>4, <1>7, <3>1
  <2>2. session[cur.ssl] = "live"
    BY <1>2, <1>4, <2>1
  <2>3. Ends(d, f)
    BY <1>4 DEF Ends, KeepSocket, Closes, MayClose, Handled
  <2> QED
    BY <1>1, <1>2, <1>3, <1>4, <2>1, <2>2, <2>3, RecordServes
<1> QED
  BY <1>5, <1>6, <1>7

(* An open socket has an entry, so that what is closed with its entry is all
   that a set of descriptors has open. *)
LEMMA EndedOwned ==
  ASSUME SslInv, ServedInv, NEW fds \in SUBSET Fds
  PROVE  \A d \in Conns : d \in Ended(fds) <=> \E fd \in fds : owner[fd] = d
<1>1. \A fd \in Fds : owner[fd] \in Conns => fd \in Keys
  <2>1. \A fd \in Fds : owner[fd] \in Conns => Ssl(fd) \in Conns
    BY SslAssumption DEF SslInv, TableInv, SessionOfSocket
  <2> QED
    BY <2>1, KeyEntry DEF SslInv
<1> QED
  BY <1>1 DEF Ended

LEMMA SweepServes ==
  ASSUME SslInv, ServedInv, Sweep
  PROVE  Serves
<1>1. /\ CloseClients(dead, "check") /\ dead' = {} /\ dead \in SUBSET Fds
      /\ phase' = [d \in Conns |-> IF d \in Ended(dead) THEN "closed" ELSE phase[d]]
      /\ UNCHANGED <<clientVars, streamVars, stopped>>
  BY DEF Sweep, SslInv, TypeInv, TypeOK
<1> USE DEF clientVars, streamVars
<1>2. /\ \A fd \in Fds \ dead : owner'[fd] = owner[fd]
      /\ \A fd \in dead : owner'[fd] = None
  BY <1>1, CloseFacts DEF CloseClients
<1>3. \A d \in Conns : d \in Ended(dead) <=> \E fd \in dead : owner[fd] = d
  BY <1>1, EndedOwned
<1>4. \A fd, g \in Fds : owner[fd] \in Conns /\ owner[fd] = owner[g] => fd = g
  <2>1. \A fd \in Fds : owner[fd] \in Conns => fd \in Keys /\ Ssl(fd) = owner[fd]
    <3>1. \A fd \in Fds : owner[fd] \in Conns => Ssl(fd) = owner[fd]
      BY SslAssumption DEF SslInv, TableInv, SessionOfSocket
    <3> QED
      BY <3>1, KeyEntry DEF SslInv
  <2> QED
    BY <2>1 DEF SslInv, TableInv
<1>5. ServedInv'
  <2>1. ASSUME NEW d \in Conns
        PROVE  phase'[d] = "accepted" <=> \E fd \in Fds : owner'[fd] = d
    <3>1. phase[d] = "accepted" <=> \E fd \in Fds : owner[fd] = d
      BY DEF ServedInv
    <3>2. CASE d \in Ended(dead)
      <4>1. PICK g \in dead : owner[g] = d
        BY <1>3, <3>2
      <4>2. ~\E fd \in Fds : owner'[fd] = d
        BY <1>1, <1>2, <1>4, <4>1, SslAssumption
      <4> QED
        BY <1>1, <3>2, <4>2
    <3>3. CASE d \notin Ended(dead)
      BY <1>1, <1>2, <1>3, <3>1, <3>3, SslAssumption
    <3> QED
      BY <3>2, <3>3
  <2> QED
    BY <1>1, <1>2, <2>1 DEF ServedInv
<1>6. \A d \in Ended(dead) : phase[d] = "accepted" /\ Service!Ended(d)
  <2>1. ~(\E fd \in dead : owner[fd] # None) \/ ~stopped
    BY <1>1 DEF SslInv, StopInv
  <2>2. ASSUME NEW d \in Ended(dead)
        PROVE  phase[d] = "accepted" /\ Finished(d)
    <3>1. PICK fd \in dead : owner[fd] = d /\ d \in Conns
      BY <1>3 DEF Ended
    <3>2. ~stopped
      BY <2>1, <3>1, SslAssumption
    <3> QED
      BY <1>1, <3>1, <3>2 DEF ServedInv
  <2> QED
    BY <2>2 DEF Finished, Service!Ended
<1>7. Service!Release(Ended(dead)) /\ Ended(dead) \in SUBSET Conns
  BY <1>1, <1>6 DEF Service!Release, Ended
<1> QED
  BY <1>5, <1>7 DEF Serves, Service!Next

LEMMA StopServes ==
  ASSUME SslInv, ServedInv, Stop
  PROVE  Serves
<1>1. /\ ~stopped /\ stopped' = TRUE
      /\ phase' = [d \in Conns |-> IF d \in Ended(Keys) THEN "closed"
                                   ELSE IF phase[d] = "queued" THEN "refused" ELSE phase[d]]
      /\ UNCHANGED <<clientVars, streamVars, dead, cur>> /\ pc' \in {pc, "undefined"}
  BY DEF Stop, StopWith, CloseClients
<1> USE DEF clientVars, streamVars
<1>2. \A fd \in Fds : owner'[fd] = None
  BY <1>1, StopStep DEF SslInv, StopInv
<1>3. \A d \in Conns : d \in Ended(Keys) <=> phase[d] = "accepted"
  <2>1. Keys \in SUBSET Fds /\ \A fd \in Fds : owner[fd] \in Conns => fd \in Keys
    <3>1. \A fd \in Fds : owner[fd] \in Conns => Ssl(fd) \in Conns
      BY SslAssumption DEF SslInv, TableInv, SessionOfSocket
    <3> QED
      BY <3>1, KeyEntry DEF SslInv, Keys
  <2>2. \A d \in Conns : d \in Ended(Keys) <=> \E fd \in Keys : owner[fd] = d
    BY <2>1, EndedOwned
  <2>3. \A d \in Conns : phase[d] = "accepted" <=> \E fd \in Fds : owner[fd] = d
    BY DEF ServedInv
  <2> QED
    BY <2>1, <2>2, <2>3
<1>4. phase' = [d \in Conns |-> IF phase[d] = "accepted" THEN "closed"
                               ELSE IF phase[d] = "queued" THEN "refused" ELSE phase[d]]
  BY <1>1, <1>3
<1>5. ServedInv'
  <2>1. \A d \in Conns : phase'[d] # "accepted"
    BY <1>4
  <2> QED
    BY <1>1, <1>2, <2>1, SslAssumption DEF ServedInv
<1>6. Service!Shutdown
  BY <1>1, <1>4 DEF Service!Shutdown
<1> QED
  BY <1>5, <1>6 DEF Serves, Service!Next

LEMMA NextServes == SslInv /\ ServedInv /\ [Next]_vars => Serves
<1> SUFFICES ASSUME SslInv, ServedInv, [Next]_vars
             PROVE  Serves
  OBVIOUS
<1>1. CASE UNCHANGED vars
  BY <1>1, QuietServes DEF vars, clientVars, socketVars, streamVars, loopVars
<1>2. CASE ClientNext
  <2>1. CASE \E d \in Conns : Stall(d) \/ Drain(d)
    <3>1. UNCHANGED <<peer, hello, sent, phase, owner, seen, taken, dead, stopped>>
      BY <2>1 DEF Stall, Drain, Client, socketVars, streamVars, loopVars
    <3> QED
      BY <3>1, QuietServes
  <2> QED
    BY <1>2, <2>1, ClientServes DEF ClientNext
<1>3. CASE \/ Run \/ RunFails \/ CheckRunning \/ BuildPollfds
           \/ Poll \/ PollInterrupted \/ ListenDone
  <2>1. UNCHANGED <<peer, hello, sent, phase, owner, seen, taken, dead, stopped>>
    BY <1>3 DEF Run, RunFails, CheckRunning, BuildPollfds, Poll, PollInterrupted, ListenDone,
                Turn, Goto, clientVars, socketVars, streamVars
  <2> QED
    BY <2>1, QuietServes
<1>4. CASE \E fd \in Fds : Gone(fd) \/ Established(fd)
  <2>1. UNCHANGED <<peer, hello, sent, phase, owner, seen, taken, dead, stopped>>
    BY <1>4 DEF Gone, Established, Handling, ToRead, clientVars
  <2> QED
    BY <2>1, QuietServes
<1>5. CASE \E fd \in Fds : \/ Accept(fd) \/ AcceptFails(fd)
                          \/ ShakeDone(fd) \/ ShakeMore(fd) \/ ShakeFails(fd)
  BY <1>5, AcceptServes, ShakeServes
<1>6. CASE ServeNext
  BY <1>6, ServeServes
<1> QED
  BY <1>1, <1>2, <1>3, <1>4, <1>5, <1>6, SweepServes, StopServes
     DEF Next, LoopNext, ServeNext

(* The TLS server implements the promise to each connection: whatever becomes of
   descriptors, entries and sessions, and whenever stop() comes, a connection's
   records are taken in order after its own handshake, and it is closed when it
   has ended, with nothing lost that was sent before an orderly end, by a
   WebSocket, or by stop() (SSLServer::handleRequests() and stop()). *)
THEOREM TlsImplementsService == Spec => ImplementsTls
<1>1. Init => SslInv /\ ServedInv /\ Service!Init
  BY InitSslInv, InitServed
<1>2. SslInv /\ ServedInv /\ [Next]_vars
        => SslInv' /\ ServedInv' /\ [Service!Next]_(Service!vars)
  BY NextSslInv, NextServes DEF Serves
<1>3. Spec => Service!Spec
  BY <1>1, <1>2, PTL DEF Spec, Service!Spec
<1> QED
  BY <1>3 DEF ImplementsTls

=============================================================================
