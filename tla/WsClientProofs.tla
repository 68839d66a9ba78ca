---------------------------- MODULE WsClientProofs ----------------------------
(***************************************************************************)
(* Every connection of the WebSocket clients has one user, which receives   *)
(* without a gap, for any objects, any descriptors and any number of pieces. *)
(*                                                                         *)
(* The invariant comes in two layers: who holds which socket (UserInv), for *)
(* which the histories play no part, and what has been read of it (GapInv). *)
(***************************************************************************)
EXTENDS WsClient, TLAPS

Types ==
  /\ life \in [Objects -> {"none", "live", "gone", "thrown"}]
  /\ fd \in [Objects -> Fds \cup {NoFd}]
  /\ connected \in [Objects -> BOOLEAN]
  /\ call \in [Objects -> {"none", "handshake", "receive"}]
  /\ sock \in [Fds -> Sockets \cup {NoSock}]

(* An object has had a descriptor since it was constructed; what is connected,
   or in a call, is live; a call has found the object connected. *)
LifeInv ==
  \A o \in Objects :
    /\ life[o] = "live" => fd[o] \in Fds
    /\ connected[o] => life[o] = "live"
    /\ call[o] # "none" => connected[o]

Conn(f) == sock[f] # NoSock /\ sock[f].end # "unconnected"

(* Who believes to be connected has a connected socket, and has it alone. *)
HeldInv ==
  \A o \in Objects : connected[o] =>
    /\ Conn(fd[o])
    /\ \A p \in Objects : connected[p] /\ fd[p] = fd[o] => p = o

UsedInv == \A f \in Fds : Conn(f) => \E o \in Objects : connected[o] /\ fd[o] = f

UserInv == Types /\ LifeInv /\ HeldInv /\ UsedInv

-----------------------------------------------------------------------------
LEMMA InitUserInv == Init => UserInv
  BY FdsAssumption
     DEF Init, UserInv, Types, LifeInv, HeldInv, UsedInv, Conn, NoFd

(* A new socket is unconnected, and its number was nobody's. *)
LEMMA ConstructUser ==
  ASSUME UserInv, NEW o \in Objects,
         (\E f \in Fds : Construct(o, f)) \/ ConstructThrows(o)
  PROVE  UserInv'
<1> USE DEF UserInv, Types, LifeInv, HeldInv, UsedInv, Conn
<1>1. CASE ConstructThrows(o)
  BY <1>1 DEF ConstructThrows
<1>2. CASE \E f \in Fds : Construct(o, f)
  <2>1. PICK f \in Fds : Construct(o, f)
    BY <1>2
  <2>2. ~connected[o] /\ call[o] = "none" /\ sock[f] = NoSock
    BY <2>1 DEF Construct, LowestFree, Free
  <2>3. Unconnected \in Sockets /\ Unconnected.end = "unconnected"
    BY BoundAssumption DEF Unconnected, Sockets, Ends
  <2>4. Types'
    BY <2>1, <2>3 DEF Construct
  <2>5. \A g \in Fds : Conn(g)' <=> Conn(g)
    BY <2>1, <2>2, <2>3 DEF Construct
  <2>6. \A p \in Objects : connected'[p] = connected[p] /\ (connected[p] => fd'[p] = fd[p])
    BY <2>1, <2>2 DEF Construct
  <2>7. LifeInv'
    BY <2>1, <2>2 DEF Construct
  <2>8. HeldInv'
    BY <2>5, <2>6, <2>7
  <2>9. UsedInv'
    BY <2>5, <2>6
  <2> QED
    BY <2>4, <2>7, <2>8, <2>9
<1> QED
  BY <1>1, <1>2

(* Only an unconnected socket is connected: nobody else holds it. *)
LEMMA ConnectUser ==
  ASSUME UserInv, NEW o \in Objects, Connect(o)
  PROVE  UserInv'
<1> USE DEF UserInv, Types, LifeInv, HeldInv, UsedInv, Conn, Connect
<1>1. fd[o] \in Fds /\ sock[fd[o]] \in Sockets /\ sock[fd[o]].end = "unconnected"
  BY DEF Calls, Free
<1>2. sock'[fd[o]] \in Sockets /\ sock'[fd[o]].end = "open"
  BY <1>1 DEF Sockets, Ends
<1>3. ~connected[o] /\ \A p \in Objects : connected[p] => fd[p] # fd[o]
  BY <1>1
<1>4. Types'
  BY <1>1, <1>2
<1>5. LifeInv'
  BY <1>1, <1>3 DEF Calls
<1>6. connected'[o] /\ \A p \in Objects \ {o} : connected'[p] = connected[p]
  OBVIOUS
<1>7. Conn(fd[o])' /\ \A f \in Fds \ {fd[o]} : Conn(f)' <=> Conn(f)
  BY <1>1, <1>2, NoSockAssumption
<1>8. HeldInv'
  BY <1>1, <1>3, <1>6, <1>7
<1>9. UsedInv'
  BY <1>1, <1>3, <1>6, <1>7
<1> QED
  BY <1>4, <1>5, <1>8, <1>9

(* A socket is closed by the one object that holds it. *)
LEMMA CloseUser ==
  ASSUME UserInv, NEW o \in Objects, Disconnect(o) \/ Destroy(o)
  PROVE  UserInv'
<1> USE DEF UserInv, Types, LifeInv, HeldInv, UsedInv, Conn
<1>1. fd' = fd /\ call' = call /\ call[o] = "none" /\ life[o] = "live" /\ Closed(o)
  BY DEF Disconnect, Destroy, Calls
<1>2. life' = life \/ life' = [life EXCEPT ![o] = "gone"]
  BY DEF Disconnect, Destroy
<1>3. ~connected'[o] /\ \A p \in Objects \ {o} : connected'[p] = connected[p]
  BY <1>1 DEF Closed
<1>4. Types'
  <2>1. life' \in [Objects -> {"none", "live", "gone", "thrown"}]
    BY <1>2
  <2>2. connected' \in [Objects -> BOOLEAN] /\ sock' \in [Fds -> Sockets \cup {NoSock}]
    BY <1>1, ZenonT(40) DEF Closed
  <2> QED
    BY <1>1, <2>1, <2>2
<1>5. LifeInv'
  BY <1>1, <1>2, <1>3
<1>6. CASE connected[o]
  <2>1. sock' = [sock EXCEPT ![fd[o]] = NoSock]
    BY <1>1, <1>6 DEF Closed
  <2> QED
    BY <1>1, <1>3, <1>4, <1>5, <1>6, <2>1
<1>7. CASE ~connected[o]
  BY <1>1, <1>3, <1>4, <1>5, <1>7 DEF Closed
<1> QED
  BY <1>6, <1>7

(* A step that keeps every socket's being connected keeps the rest. *)
LEMMA KeepUser ==
  ASSUME UserInv, Types', UNCHANGED <<life, fd, connected>>,
         \A o \in Objects : call'[o] # "none" => connected[o],
         \A f \in Fds : Conn(f)' <=> Conn(f)
  PROVE  UserInv'
  BY DEF UserInv, Types, LifeInv, HeldInv, UsedInv

(* So does one that only counts, or ends the connection at the other side. *)
LEMMA SocketKept ==
  ASSUME UserInv, NEW f \in Fds, Conn(f), NEW s \in Sockets, s.end # "unconnected",
         sock' = [sock EXCEPT ![f] = s]
  PROVE  /\ sock' \in [Fds -> Sockets \cup {NoSock}]
         /\ \A g \in Fds : Conn(g)' <=> Conn(g)
  BY NoSockAssumption DEF UserInv, Types, Conn

(* The socket of an object in a call. *)
LEMMA InCall ==
  ASSUME UserInv, NEW o \in Objects, connected[o]
  PROVE  /\ fd[o] \in Fds /\ Conn(fd[o])
         /\ S(o) \in Sockets /\ S(o).end # "unconnected"
  BY DEF UserInv, Types, LifeInv, HeldInv, Conn, S

LEMMA SendUser ==
  ASSUME UserInv, NEW o \in Objects, HandshakeSends(o) \/ SendMessage(o)
  PROVE  UserInv'
<1> DEFINE s == IF SendMessage(o) THEN S(o) ELSE [S(o) EXCEPT !.asked = TRUE]
<1>1. connected[o] /\ UNCHANGED <<life, fd, connected>> /\ SendsOn(o, s)
  BY DEF HandshakeSends, SendMessage, objVars
<1>2. S(o) \in Sockets /\ fd[o] \in Fds /\ Conn(fd[o]) /\ S(o).end # "unconnected"
  BY <1>1, InCall
<1>3. s \in Sockets /\ s.end = S(o).end /\ [s EXCEPT !.end = "reset"] \in Sockets
  BY <1>2 DEF Sockets, Ends
<1>4. sock' \in [Fds -> Sockets \cup {NoSock}] /\ \A f \in Fds : Conn(f)' <=> Conn(f)
  <2>1. CASE UNCHANGED sock
    BY <2>1 DEF UserInv, Types, Conn
  <2>2. CASE sock' # sock
    <3>1. PICK u \in Sockets : u.end # "unconnected" /\ sock' = [sock EXCEPT ![fd[o]] = u]
      BY <1>1, <1>2, <1>3, <2>2 DEF SendsOn, Sockets
    <3> QED
      BY <1>2, <3>1, SocketKept
  <2> QED
    BY <2>1, <2>2
<1>5. call' \in [Objects -> {"none", "handshake", "receive"}]
      /\ \A p \in Objects : call'[p] # "none" => connected[p]
  BY <1>1 DEF HandshakeSends, SendMessage, objVars, UserInv, Types, LifeInv
<1> QED
  BY <1>1, <1>4, <1>5, KeepUser DEF UserInv, Types

LEMMA ReadUser ==
  ASSUME UserInv, NEW o \in Objects,
         \/ Receive(o) \/ ReadsNothing(o)
         \/ \E n \in 1..MaxWrote : HandshakeReads(o, n) \/ ReceiveReads(o, n)
  PROVE  UserInv'
<1>1. UNCHANGED <<life, fd, connected>> /\ connected[o]
  BY DEF Receive, ReadsNothing, HandshakeReads, ReceiveReads, UserInv, LifeInv
<1>2. sock' \in [Fds -> Sockets \cup {NoSock}] /\ \A f \in Fds : Conn(f)' <=> Conn(f)
  <2>1. CASE UNCHANGED sock
    BY <2>1 DEF UserInv, Types, Conn
  <2>2. CASE \E n \in 1..MaxWrote : Reads(o, n)
    <3>1. PICK n \in 1..MaxWrote : Reads(o, n)
      BY <2>2
    <3>2. S(o) \in Sockets /\ fd[o] \in Fds /\ Conn(fd[o]) /\ S(o).end # "unconnected"
      BY <1>1, InCall
    <3>3. [S(o) EXCEPT !.read = @ + n] \in Sockets
      <4>1. S(o).read \in Nat /\ S(o).wrote \in 0..MaxWrote
        BY <3>2, BoundAssumption DEF Sockets
      <4>2. S(o).read + n \in 0..MaxWrote
        BY <3>1, <4>1, BoundAssumption DEF Reads
      <4> QED
        BY <3>2, <4>2 DEF Sockets
    <3>4. sock' = [sock EXCEPT ![fd[o]] = [S(o) EXCEPT !.read = @ + n]]
      BY <3>1 DEF Reads, S
    <3>5. [S(o) EXCEPT !.read = @ + n].end # "unconnected"
      BY <3>2 DEF Sockets
    <3> QED
      BY <3>2, <3>3, <3>4, <3>5, SocketKept
  <2> QED
    BY <2>1, <2>2 DEF Receive, ReadsNothing, HandshakeReads, ReceiveReads
<1>3. call' \in [Objects -> {"none", "handshake", "receive"}]
      /\ \A p \in Objects : call'[p] # "none" => connected[p]
  BY <1>1 DEF Receive, ReadsNothing, HandshakeReads, ReceiveReads, UserInv, Types, LifeInv
<1> QED
  BY <1>1, <1>2, <1>3, KeepUser DEF UserInv, Types

(* The servers' steps keep a connected socket connected. *)
LEMMA ServerUser ==
  ASSUME UserInv, ServerNext
  PROVE  UserInv'
<1>1. PICK f \in Fds : \/ \E r \in {"switched", "refused"} : Reply(f, r)
                       \/ Push(f)
                       \/ \E e \in {"closed", "reset"} : End(f, e)
  BY DEF ServerNext
<1>2. sock[f] \in Sockets /\ sock[f].end = "open" /\ Conn(f)
  BY <1>1 DEF Reply, Push, End, Serves, Free, UserInv, Types, Conn
<1>3. PICK s \in Sockets : s.end # "unconnected" /\ sock' = [sock EXCEPT ![f] = s]
  <2>1. CASE \E r \in {"switched", "refused"} : Reply(f, r)
    <3>1. PICK r \in {"switched", "refused"} : Reply(f, r)
      BY <2>1
    <3>2. [sock[f] EXCEPT !.reply = r, !.wrote = Greeting] \in Sockets
      <4>1. Greeting \in 0..MaxWrote
        BY BoundAssumption DEF Greeting
      <4>2. [sock[f] EXCEPT !.reply = r] \in Sockets
        BY <1>2 DEF Sockets
      <4> QED
        BY <4>1, <4>2 DEF Sockets
    <3>3. sock' = [sock EXCEPT ![f] = [sock[f] EXCEPT !.reply = r, !.wrote = Greeting]]
      BY <3>1 DEF Reply, UserInv, Types
    <3> QED
      BY <1>2, <3>2, <3>3 DEF Sockets
  <2>2. CASE Push(f)
    <3>1. [sock[f] EXCEPT !.wrote = @ + 1] \in Sockets
      BY <1>2, <2>2, BoundAssumption DEF Sockets, Push
    <3> QED
      BY <1>2, <2>2, <3>1 DEF Sockets, Push
  <2>3. CASE \E e \in {"closed", "reset"} : End(f, e)
    <3>1. PICK e \in {"closed", "reset"} : End(f, e)
      BY <2>3
    <3>2. [sock[f] EXCEPT !.end = e] \in Sockets
      BY <1>2 DEF Sockets, Ends
    <3> QED
      BY <1>2, <3>1, <3>2 DEF Sockets, End
  <2> QED
    BY <1>1, <2>1, <2>2, <2>3
<1>4. sock' \in [Fds -> Sockets \cup {NoSock}] /\ \A g \in Fds : Conn(g)' <=> Conn(g)
  BY <1>2, <1>3, SocketKept
<1>5. UNCHANGED <<life, fd, connected, call>>
  BY <1>1 DEF Reply, Push, End, objVars
<1> QED
  BY <1>4, <1>5, KeepUser DEF UserInv, Types, LifeInv

LEMMA NextUserInv == UserInv /\ [Next]_vars => UserInv'
<1> SUFFICES ASSUME UserInv, [Next]_vars
             PROVE  UserInv'
  OBVIOUS
<1>1. CASE UNCHANGED vars
  BY <1>1 DEF vars, objVars, UserInv, Types, LifeInv, HeldInv, UsedInv, Conn
<1>2. ASSUME NEW o \in Objects, ObjectNext(o)
      PROVE  UserInv'
  BY <1>2, ConstructUser, ConnectUser, CloseUser, SendUser, ReadUser DEF ObjectNext
<1> QED
  BY <1>1, <1>2, ServerUser DEF Next

THEOREM UserInvariant == Spec => []UserInv
  BY InitUserInv, NextUserInv, PTL DEF Spec

(* Although numbers go from object to object, each connected socket has exactly
   one object that will close it (WebSocketClient::disconnect()). *)
THEOREM OneUserAlways == Spec => []OneUserPerConnection
<1>1. UserInv => OneUserPerConnection
  BY DEF UserInv, Types, LifeInv, HeldInv, UsedInv, Conn, OneUserPerConnection, Uses, Free, S
<1> QED
  BY <1>1, UserInvariant, PTL

-----------------------------------------------------------------------------
(* What an object has received.  The socket of a connection counts what was
   read of it; the object's histories account for all of it.  Before the
   handshake's recv() there is nothing to account for, and nobody waits before
   the request has been sent, unless sending it has ended the process. *)
Gapless(o) ==
  /\ \A i \in 1..Len(got[o]) : got[o][i] = skipped[o] + i
  /\ S(o).read = skipped[o] + Len(got[o])
  /\ shook[o] => S(o).reply = "switched"
  /\ S(o).asked = FALSE \/ call[o] = "handshake" => skipped[o] = 0 /\ got[o] = <<>>
  /\ call[o] # "none" => S(o).asked = TRUE \/ killed = TRUE

Histories ==
  /\ shook \in [Objects -> BOOLEAN]
  /\ skipped \in [Objects -> 0..MaxWrote]
  /\ got \in [Objects -> Seq(1..MaxWrote)]
  /\ killed \in BOOLEAN

Unread == \A f \in Fds : sock[f] # NoSock /\ sock[f].end = "unconnected" => sock[f].read = 0

GapInv == Histories /\ Unread /\ \A o \in Objects : connected[o] => Gapless(o)

LEMMA InitGapInv == Init => GapInv
<1> SUFFICES ASSUME Init
             PROVE  GapInv
  OBVIOUS
<1>1. got \in [Objects -> Seq(1..MaxWrote)] /\ skipped \in [Objects -> 0..MaxWrote]
  BY BoundAssumption DEF Init
<1> QED
  BY <1>1 DEF Init, GapInv, Histories, Unread

(* A step that leaves the histories alone, and of each connected socket what was
   read, asked and answered, keeps the accounts. *)
LEMMA KeepGap ==
  ASSUME UserInv, GapInv, Histories', UNCHANGED <<fd, shook, skipped, got, killed>>,
         \A o \in Objects : connected'[o] =>
           /\ connected[o]
           /\ call'[o] # call[o] => call'[o] = "none" \/ (call'[o] = "receive" /\ S(o).asked = TRUE)
           /\ S(o)'.read = S(o).read /\ S(o)'.asked = S(o).asked
           /\ S(o).reply = "switched" => S(o)'.reply = "switched",
         Unread'
  PROVE  GapInv'
  BY DEF GapInv, Gapless, UserInv, Types

LEMMA ConstructGap ==
  ASSUME UserInv, GapInv, NEW o \in Objects,
         (\E f \in Fds : Construct(o, f)) \/ ConstructThrows(o)
  PROVE  GapInv'
<1>1. CASE ConstructThrows(o)
  BY <1>1, KeepGap DEF ConstructThrows, GapInv, Histories, Unread, S
<1>2. CASE \E f \in Fds : Construct(o, f)
  <2>1. PICK f \in Fds : Construct(o, f)
    BY <1>2
  <2>2. /\ sock[f] = NoSock /\ sock' = [sock EXCEPT ![f] = Unconnected]
        /\ ~connected[o] /\ fd' = [fd EXCEPT ![o] = f]
        /\ UNCHANGED <<connected, call, shook, skipped, got, killed>>
    BY <2>1 DEF Construct, LowestFree, Free, UserInv, LifeInv
  <2>3. \A p \in Objects : connected[p] => p # o /\ fd'[p] = fd[p] /\ S(p)' = S(p)
    BY <2>2, InCall DEF UserInv, Types, S, Conn
  <2>4. Unread'
    BY <2>2 DEF GapInv, Unread, Unconnected, UserInv, Types
  <2>5. \A p \in Objects : connected[p] => (Gapless(p)' <=> Gapless(p))
    BY <2>2, <2>3 DEF Gapless
  <2> QED
    BY <2>2, <2>4, <2>5 DEF GapInv, Histories
<1> QED
  BY <1>1, <1>2

LEMMA ConnectGap ==
  ASSUME UserInv, UserInv', GapInv, NEW o \in Objects, Connect(o)
  PROVE  GapInv'
<1>1. /\ fd[o] \in Fds /\ sock[fd[o]] \in Sockets /\ sock[fd[o]].end = "unconnected"
      /\ call[o] = "none"
  BY DEF Connect, Calls, Free, UserInv, Types, LifeInv
<1>2. /\ sock' = [sock EXCEPT ![fd[o]].end = "open"] /\ UNCHANGED <<life, fd, call, killed>>
      /\ shook' = [shook EXCEPT ![o] = FALSE] /\ skipped' = [skipped EXCEPT ![o] = 0]
      /\ got' = [got EXCEPT ![o] = <<>>] /\ connected' = [connected EXCEPT ![o] = TRUE]
  BY DEF Connect
<1>3. Histories'
  BY <1>2, BoundAssumption DEF GapInv, Histories
<1>4. Unread'
  BY <1>1, <1>2 DEF GapInv, Unread, UserInv, Types, Sockets
<1>5. Gapless(o)'
  <2>1. S(o)'.read = 0
    BY <1>1, <1>2, NoSockAssumption DEF S, GapInv, Unread, UserInv, Types, Sockets
  <2>2. shook'[o] = FALSE /\ skipped'[o] = 0 /\ got'[o] = <<>> /\ call'[o] = "none"
    BY <1>1, <1>2 DEF GapInv, Histories
  <2> QED
    BY <2>1, <2>2 DEF Gapless
<1>6. ASSUME NEW p \in Objects, p # o, connected'[p]
      PROVE  Gapless(p)'
  <2>1. connected[p] /\ fd[p] \in Fds /\ Conn(fd[p])
    BY <1>2, <1>6, InCall DEF UserInv, Types
  <2>2. fd[p] # fd[o]
    BY <1>1, <2>1 DEF Conn
  <2>3. S(p)' = S(p)
    BY <1>2, <2>1, <2>2 DEF S, UserInv, Types
  <2>4. /\ shook'[p] = shook[p] /\ skipped'[p] = skipped[p] /\ got'[p] = got[p]
        /\ call'[p] = call[p]
    BY <1>2, <1>6 DEF GapInv, Histories
  <2>5. Gapless(p) /\ killed' = killed
    BY <1>2, <2>1 DEF GapInv
  <2> QED
    BY <2>3, <2>4, <2>5 DEF Gapless
<1> QED
  BY <1>3, <1>4, <1>5, <1>6 DEF GapInv

LEMMA CloseGap ==
  ASSUME UserInv, GapInv, NEW o \in Objects, Disconnect(o) \/ Destroy(o)
  PROVE  GapInv'
<1>1. UNCHANGED <<fd, call, shook, skipped, got, killed>> /\ Closed(o)
  BY DEF Disconnect, Destroy
<1>2. Unread'
  BY <1>1 DEF Closed, GapInv, Unread, UserInv, Types
<1>3. \A p \in Objects : connected'[p] => connected[p] /\ S(p)' = S(p)
  <2>1. CASE connected[o]
    <3>1. sock' = [sock EXCEPT ![fd[o]] = NoSock] /\ connected' = [connected EXCEPT ![o] = FALSE]
      BY <1>1, <2>1 DEF Closed
    <3>2. \A p \in Objects : connected'[p] => connected[p] /\ p # o
      BY <3>1 DEF UserInv, Types
    <3>3. \A p \in Objects : connected[p] /\ p # o => fd[p] # fd[o] /\ fd[p] \in Fds
      BY <2>1, InCall DEF UserInv, HeldInv
    <3> QED
      BY <1>1, <3>1, <3>2, <3>3 DEF S, UserInv, Types
  <2>2. CASE ~connected[o]
    BY <1>1, <2>2 DEF Closed, S
  <2> QED
    BY <2>1, <2>2
<1>4. Histories'
  BY <1>1 DEF GapInv, Histories
<1> QED
  BY <1>1, <1>2, <1>3, <1>4, KeepGap

(* A call changes the caller's socket and nobody else's. *)
LEMMA OthersKept ==
  ASSUME UserInv, NEW o \in Objects, connected[o], NEW s \in Sockets, s.end # "unconnected",
         fd' = fd, sock' = [sock EXCEPT ![fd[o]] = s]
  PROVE  /\ S(o)' = s
         /\ \A p \in Objects \ {o} : connected[p] => S(p)' = S(p)
         /\ \A f \in Fds : sock'[f] = sock[f] \/ sock'[f].end # "unconnected"
<1>1. fd[o] \in Fds
  BY InCall
<1>2. \A p \in Objects \ {o} : connected[p] => fd[p] \in Fds /\ fd[p] # fd[o]
  BY InCall DEF UserInv, HeldInv
<1> QED
  BY <1>1, <1>2 DEF S, UserInv, Types

LEMMA SendGap ==
  ASSUME UserInv, GapInv, NEW o \in Objects, HandshakeSends(o) \/ SendMessage(o)
  PROVE  GapInv'
<1>1. /\ connected[o] /\ call[o] = "none" /\ S(o) \in Sockets /\ S(o).end # "unconnected"
      /\ Gapless(o)
      /\ UNCHANGED <<life, fd, connected, shook, skipped, got>>
  BY InCall DEF HandshakeSends, SendMessage, Calls, objVars, GapInv
<1>2. PICK s \in Sockets :
                          /\ s.read = S(o).read /\ s.reply = S(o).reply
                          /\ S(o).asked = TRUE => s.asked = TRUE
                          /\ s.end # "unconnected"
                          /\ sock' = [sock EXCEPT ![fd[o]] = s]
  <2>1. CASE sock' = sock
    BY <1>1, <2>1, InCall DEF S, UserInv, Types
  <2>2. CASE sock' # sock
    <3>1. PICK t \in Sockets : /\ SendsOn(o, t)
                               /\ t.read = S(o).read /\ t.reply = S(o).reply
                               /\ t.end # "unconnected"
                               /\ S(o).asked = TRUE => t.asked = TRUE
      BY <1>1 DEF HandshakeSends, SendMessage, Sockets, Ends
    <3>2. PICK u \in Sockets : /\ u = [t EXCEPT !.end = "reset"]
                               /\ u.read = t.read /\ u.reply = t.reply /\ u.asked = t.asked
                               /\ u.end # "unconnected"
      <4>1. /\ [t EXCEPT !.end = "reset"] \in Sockets
            /\ [t EXCEPT !.end = "reset"].read = t.read
            /\ [t EXCEPT !.end = "reset"].reply = t.reply
            /\ [t EXCEPT !.end = "reset"].asked = t.asked
            /\ [t EXCEPT !.end = "reset"].end # "unconnected"
        BY DEF Sockets, Ends
      <4> QED
        BY <4>1
    <3>3. sock' = [sock EXCEPT ![fd[o]] = u] \/ sock' = [sock EXCEPT ![fd[o]] = t]
      BY <2>2, <3>1, <3>2 DEF SendsOn
    <3> QED
      BY <3>1, <3>2, <3>3
  <2> QED
    BY <2>1, <2>2
<1>3. /\ S(o)' = s
      /\ \A p \in Objects \ {o} : connected[p] => S(p)' = S(p)
      /\ \A f \in Fds : sock'[f] = sock[f] \/ sock'[f].end # "unconnected"
  <2>1. fd' = fd /\ connected[o]
    BY <1>1
  <2>2. s.end # "unconnected" /\ sock' = [sock EXCEPT ![fd[o]] = s]
    BY <1>2
  <2> QED
    BY <2>1, <2>2, OthersKept
<1>4. /\ \A p \in Objects \ {o} : call'[p] = call[p]
      /\ \/ call'[o] = "none" /\ S(o).asked = TRUE
         \/ call'[o] = "handshake" /\ S(o).asked = FALSE /\ (s.asked = TRUE \/ killed' = TRUE)
  <2>1. CASE SendMessage(o)
    BY <1>1, <2>1 DEF SendMessage, objVars
  <2>2. CASE HandshakeSends(o)
    <3>1. S(o).end = "reset" => killed' = TRUE
      BY <2>2 DEF HandshakeSends, SendsOn
    <3>2. ASSUME S(o).end # "reset"
          PROVE  s.asked = TRUE
      <4>1. PICK u \in Sockets : u.asked = TRUE /\ sock' = [sock EXCEPT ![fd[o]] = u]
        <5>1. PICK t \in Sockets : t.asked = TRUE /\ SendsOn(o, t)
          BY <1>1, <2>2 DEF HandshakeSends, Sockets
        <5>2. [t EXCEPT !.end = "reset"] \in Sockets /\ [t EXCEPT !.end = "reset"].asked = TRUE
          BY <5>1 DEF Sockets, Ends
        <5> QED
          BY <3>2, <5>1, <5>2 DEF SendsOn
      <4>2. s = u
        BY <1>1, <1>2, <4>1, InCall DEF UserInv, Types
      <4> QED
        BY <4>1, <4>2
    <3>3. s.asked = TRUE \/ killed' = TRUE
      BY <3>1, <3>2
    <3> QED
      BY <1>1, <2>2, <3>3 DEF HandshakeSends, UserInv, Types
  <2> QED
    BY <2>1, <2>2
<1>5. Gapless(o)'
  <2>1. /\ got'[o] = got[o] /\ skipped'[o] = skipped[o] /\ shook'[o] = shook[o]
        /\ S(o)'.read = S(o).read /\ S(o)'.reply = S(o).reply
        /\ S(o).asked = TRUE => S(o)'.asked = TRUE
    BY <1>1, <1>2, <1>3
  <2> QED
    BY <1>1, <1>3, <1>4, <2>1 DEF Gapless
<1>6. \A p \in Objects \ {o} : connected[p] => Gapless(p)'
  <2>1. killed = TRUE => killed' = TRUE
    BY DEF HandshakeSends, SendMessage, Calls
  <2> QED
    BY <1>1, <1>3, <1>4, <2>1 DEF GapInv, Gapless
<1>7. Unread'
  BY <1>3 DEF GapInv, Unread
<1>8. Histories'
  BY <1>1 DEF HandshakeSends, SendMessage, SendsOn, GapInv, Histories
<1> QED
  BY <1>1, <1>5, <1>6, <1>7, <1>8 DEF GapInv

(* recv(): what it returns follows what the object has accounted for. *)
LEMMA ReadGap ==
  ASSUME UserInv, GapInv, NEW o \in Objects, NEW n \in 1..MaxWrote,
         HandshakeReads(o, n) \/ ReceiveReads(o, n)
  PROVE  GapInv'
<1>1. connected[o] /\ Gapless(o) /\ S(o) \in Sockets /\ S(o).end # "unconnected"
  BY InCall DEF HandshakeReads, ReceiveReads, UserInv, LifeInv, GapInv
<1> DEFINE s == [S(o) EXCEPT !.read = @ + n]
<1>2. /\ S(o).read \in Nat /\ S(o).wrote \in 0..MaxWrote /\ S(o).read + n <= S(o).wrote
      /\ sock' = [sock EXCEPT ![fd[o]] = s]
      /\ UNCHANGED <<life, fd, connected, killed>>
  BY <1>1, BoundAssumption DEF HandshakeReads, ReceiveReads, Reads, S, Sockets
<1>3. /\ s \in Sockets /\ s.end # "unconnected" /\ s.read = S(o).read + n
      /\ s.reply = S(o).reply /\ s.asked = S(o).asked
  BY <1>1, <1>2, BoundAssumption DEF Sockets
<1> HIDE DEF s
<1>4. /\ S(o)' = s
      /\ \A p \in Objects \ {o} : connected[p] => S(p)' = S(p)
      /\ \A f \in Fds : sock'[f] = sock[f] \/ sock'[f].end # "unconnected"
  BY <1>1, <1>2, <1>3, OthersKept
<1>5. Unread'
  BY <1>4 DEF GapInv, Unread
<1>6. CASE HandshakeReads(o, n)
  <2>1. /\ shook' = [shook EXCEPT ![o] = Accepts(o, n)] /\ skipped' = [skipped EXCEPT ![o] = n]
        /\ call' = [call EXCEPT ![o] = "none"] /\ got' = got /\ call[o] = "handshake"
    BY <1>6 DEF HandshakeReads
  <2>2. Histories'
    <3>1. Accepts(o, n) \in BOOLEAN /\ n \in 0..MaxWrote
      BY BoundAssumption DEF Accepts
    <3> QED
      BY <1>2, <2>1, <3>1 DEF GapInv, Histories
  <2>3. skipped'[o] = n /\ got'[o] = <<>> /\ S(o).read = 0 /\ call'[o] = "none"
    BY <1>1, <2>1 DEF Gapless, GapInv, Histories, UserInv, Types
  <2>4. shook'[o] => s.reply = "switched"
    BY <1>3, <2>1 DEF Accepts, GapInv, Histories
  <2>5. s.asked = TRUE
    BY <1>1, <1>3, <1>6, <2>1 DEF Gapless, HandshakeReads, Reads
  <2>6. Gapless(o)'
    BY <1>3, <1>4, <2>3, <2>4, <2>5 DEF Gapless
  <2>7. ASSUME NEW p \in Objects \ {o}, connected[p]
        PROVE  Gapless(p)'
    <3>1. /\ S(p)' = S(p) /\ shook'[p] = shook[p] /\ skipped'[p] = skipped[p]
          /\ got'[p] = got[p] /\ call'[p] = call[p] /\ killed' = killed
      BY <1>2, <1>4, <2>1, <2>7 DEF GapInv, Histories, UserInv, Types
    <3> QED
      BY <2>7, <3>1 DEF GapInv, Gapless
  <2> QED
    BY <1>2, <1>5, <2>2, <2>6, <2>7 DEF GapInv
<1>7. CASE ReceiveReads(o, n)
  <2> DEFINE new == [i \in 1..n |-> S(o).read + i]
  <2>1. /\ got' = [got EXCEPT ![o] = @ \o new]
        /\ call' = [call EXCEPT ![o] = "none"] /\ UNCHANGED <<shook, skipped>>
        /\ call[o] = "receive"
    BY <1>7 DEF ReceiveReads
  <2>2. new \in Seq(1..MaxWrote) /\ Len(new) = n /\ \A i \in 1..n : new[i] = S(o).read + i
    <3>1. \A i \in 1..n : S(o).read + i \in 1..MaxWrote
      BY <1>2, BoundAssumption
    <3> QED
      BY <3>1, BoundAssumption
  <2> HIDE DEF new
  <2>3. got[o] \in Seq(1..MaxWrote) /\ skipped[o] \in 0..MaxWrote
    BY DEF GapInv, Histories
  <2>4. /\ got'[o] \in Seq(1..MaxWrote)
        /\ Len(got'[o]) = Len(got[o]) + n
        /\ \A i \in 1..Len(got'[o]) :
             \/ i \in 1..Len(got[o]) /\ got'[o][i] = got[o][i]
             \/ i - Len(got[o]) \in 1..n /\ got'[o][i] = new[i - Len(got[o])]
    <3>1. PICK old \in Seq(1..MaxWrote) : old = got[o]
      BY <2>3
    <3>2. got'[o] = old \o new
      BY <2>1, <3>1 DEF GapInv, Histories
    <3>3. Len(old) \in Nat /\ Len(old \o new) = Len(old) + n /\ old \o new \in Seq(1..MaxWrote)
      BY <2>2
    <3>4. \A i \in 1..Len(old) + n :
             \/ i \in 1..Len(old) /\ (old \o new)[i] = old[i]
             \/ i - Len(old) \in 1..n /\ (old \o new)[i] = new[i - Len(old)]
      BY <2>2, <3>3
    <3> QED
      BY <3>1, <3>2, <3>3, <3>4
  <2>5. Histories'
    BY <1>2, <2>1, <2>4 DEF GapInv, Histories
  <2>6. /\ skipped'[o] = skipped[o] /\ skipped[o] \in Nat /\ Len(got[o]) \in Nat
        /\ S(o).read = skipped[o] + Len(got[o])
        /\ \A i \in 1..Len(got[o]) : got[o][i] = skipped[o] + i
    BY <1>1, <2>1, <2>3, BoundAssumption DEF Gapless
  <2>7. ASSUME NEW i \in 1..Len(got'[o])
        PROVE  got'[o][i] = skipped'[o] + i
    <3>1. CASE i \in 1..Len(got[o]) /\ got'[o][i] = got[o][i]
      BY <2>6, <3>1
    <3>2. CASE i - Len(got[o]) \in 1..n /\ got'[o][i] = new[i - Len(got[o])]
      <4>1. got'[o][i] = S(o).read + (i - Len(got[o]))
        BY <2>2, <3>2
      <4> QED
        BY <2>4, <2>6, <4>1
    <3> QED
      BY <2>4, <3>1, <3>2
  <2>8. s.read = skipped'[o] + Len(got'[o])
    BY <1>3, <2>4, <2>6
  <2>10. /\ s.asked = TRUE /\ call'[o] = "none" /\ shook'[o] = shook[o]
         /\ shook[o] => s.reply = "switched"
    BY <1>1, <1>3, <1>7, <2>1 DEF Gapless, ReceiveReads, Reads, UserInv, Types
  <2>11. Gapless(o)'
    BY <1>4, <2>7, <2>8, <2>10 DEF Gapless
  <2>9. \A p \in Objects \ {o} : connected[p] => Gapless(p)'
    BY <1>2, <1>4, <2>1 DEF GapInv, Gapless, Histories, UserInv, Types
  <2> QED
    BY <1>2, <1>5, <2>5, <2>11, <2>9 DEF GapInv
<1> QED
  BY <1>6, <1>7

LEMMA WaitGap ==
  ASSUME UserInv, GapInv, NEW o \in Objects, Receive(o) \/ ReadsNothing(o)
  PROVE  GapInv'
<1>1. UNCHANGED <<life, fd, connected, shook, skipped, got, sock, killed>>
  BY DEF Receive, ReadsNothing
<1>2. \A p \in Objects : call'[p] # call[p] =>
        call'[p] = "none" \/ (call'[p] = "receive" /\ S(p).asked = TRUE)
  BY DEF Receive, ReadsNothing, UserInv, Types
<1>3. Unread' /\ Histories'
  BY <1>1 DEF GapInv, Unread, Histories
<1> QED
  BY <1>1, <1>2, <1>3, KeepGap DEF S

LEMMA ServerGap ==
  ASSUME UserInv, GapInv, ServerNext
  PROVE  GapInv'
<1>1. PICK f \in Fds : \/ \E r \in {"switched", "refused"} : Reply(f, r)
                       \/ Push(f)
                       \/ \E e \in {"closed", "reset"} : End(f, e)
  BY DEF ServerNext
<1>2. sock[f] \in Sockets /\ sock[f].end = "open" /\ UNCHANGED objVars /\ killed' = killed
  BY <1>1 DEF Reply, Push, End, Serves, Free, UserInv, Types
<1>3. /\ \A g \in Fds \ {f} : sock'[g] = sock[g]
      /\ sock'[f].read = sock[f].read /\ sock'[f].asked = sock[f].asked
      /\ sock[f].reply = "switched" => sock'[f].reply = "switched"
      /\ sock'[f].end # "unconnected"
  BY <1>1, <1>2 DEF Reply, Push, End, UserInv, Types, Sockets
<1>4. Unread'
  BY <1>3 DEF GapInv, Unread
<1>5. \A o \in Objects : connected[o] =>
        /\ S(o)'.read = S(o).read /\ S(o)'.asked = S(o).asked
        /\ S(o).reply = "switched" => S(o)'.reply = "switched"
  BY <1>2, <1>3, InCall DEF S, objVars
<1>6. Histories'
  BY <1>2 DEF objVars, GapInv, Histories
<1> QED
  BY <1>2, <1>4, <1>5, <1>6, KeepGap DEF objVars

LEMMA NextGapInv == UserInv /\ UserInv' /\ GapInv /\ [Next]_vars => GapInv'
<1> SUFFICES ASSUME UserInv, UserInv', GapInv, [Next]_vars
             PROVE  GapInv'
  OBVIOUS
<1>1. CASE UNCHANGED vars
  <2>1. Unread' /\ Histories'
    BY <1>1 DEF vars, objVars, GapInv, Unread, Histories
  <2> QED
    BY <1>1, <2>1, KeepGap DEF vars, objVars, S
<1>2. ASSUME NEW o \in Objects, ObjectNext(o)
      PROVE  GapInv'
  BY <1>2, ConstructGap, ConnectGap, CloseGap, SendGap, ReadGap, WaitGap DEF ObjectNext
<1> QED
  BY <1>1, <1>2, ServerGap DEF Next

LEMMA GapInvariant == Spec => []GapInv
  BY InitGapInv, NextGapInv, UserInvariant, PTL DEF Spec

(* A connected object has received what its server sent without a gap, from
   where the handshake stopped reading, and handshake() says yes only of a server
   that has switched (websocketclient.h:60, 162). *)
THEOREM AlwaysReceivedWithoutGap == Spec => []ReceivedWithoutGap
<1>1. GapInv => ReceivedWithoutGap
  <2> SUFFICES ASSUME GapInv, NEW o \in Objects, connected[o]
               PROVE  /\ got[o] = [i \in 1..Len(got[o]) |-> skipped[o] + i]
                      /\ S(o).read = skipped[o] + Len(got[o])
                      /\ shook[o] => S(o).reply = "switched"
    BY DEF ReceivedWithoutGap
  <2>1. Gapless(o) /\ got[o] \in Seq(1..MaxWrote)
    BY DEF GapInv, Histories
  <2>2. got[o] = [i \in 1..Len(got[o]) |-> got[o][i]]
    BY <2>1
  <2> QED
    BY <2>1, <2>2 DEF Gapless
<1> QED
  BY <1>1, GapInvariant, PTL

(* Every variable of the WebSocket clients stays in its range. *)
THEOREM TypeCorrect == Spec => []TypeOK
<1>1. UserInv /\ GapInv => TypeOK
  BY DEF UserInv, Types, GapInv, Histories, TypeOK
<1> QED
  BY <1>1, UserInvariant, GapInvariant, PTL

=============================================================================
