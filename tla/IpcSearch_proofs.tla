-------------------------- MODULE IpcSearch_proofs --------------------------
(* The honesty of search results and the account of the connection slots,    *)
(* for any number of commands and any limit.                                 *)
EXTENDS IpcSearch, FiniteSetTheorems, TLAPS

Types == /\ handlers \subseteq Asks
         /\ slots \in Nat
         /\ stage \in [Conns -> {"none", "backlog", "decode", "handle", "done"}]
         /\ sent \subseteq Conns
         /\ wire \in [Conns -> {"empty", "ok", "error", "closed"}]
         /\ client \in [Clients -> {"start", "ping", "reachable", "search",
                                    "fallback", "end"}]
         /\ outcome \in [Clients -> {"none", "semantic", "fts", "failed"}]

(* Nothing can be read on a connection before the server is done with it,    *)
(* and a command opens each connection once.                                 *)
Unopened(c) == /\ client[c] = "start" => stage[<<c, "ping">>] = "none"
               /\ client[c] \in {"start", "ping", "reachable"} =>
                     stage[<<c, "search">>] = "none"

QuietInv == /\ \A k \in Conns : stage[k] # "done" => wire[k] = "empty"
            /\ \A c \in Clients : Unopened(c)

(* A connection that a handler has is a request that was sent and whose      *)
(* handler is registered, and so is one that was answered.                   *)
Asked(k) == k \in sent /\ k[2] \in handlers

HandledInv == \A k \in Conns : stage[k] = "handle" \/ wire[k] = "ok" => Asked(k)

HonestInv == Types /\ QuietInv /\ HandledInv /\ ResultsAreHonest

LEMMA HonestInit == Init => HonestInv
  BY DEF Init, HonestInv, Types, QuietInv, Unopened, HandledInv, ResultsAreHonest,
         Asks, Conns

LEMMA ConnsOfClients ==
    /\ \A c \in Clients : \A a \in Asks : <<c, a>> \in Conns
    /\ \A k \in Conns : k[1] \in Clients /\ k[2] \in Asks /\ k = <<k[1], k[2]>>
  BY DEF Conns

(* What the server's side may do to the connections: it moves some on that   *)
(* are not done, it answers only what it has handled, and writes on a        *)
(* connection when it is done with it.                                       *)
ServerMoves ==
    /\ \A k \in Conns :
          /\ stage'[k] # stage[k] => stage[k] \notin {"none", "done"}
          /\ stage'[k] = "handle" => stage[k] = "handle" \/ Asked(k)
          /\ stage'[k] # "done" => wire'[k] = wire[k]
          /\ stage[k] = "done" => stage'[k] = "done" /\ wire'[k] = wire[k]
          /\ wire'[k] = "ok" => wire[k] = "ok" \/ stage[k] = "handle"
    /\ handlers \subseteq handlers'
    /\ UNCHANGED <<sent, commands>>

LEMMA ServerStep ==
    ASSUME HonestInv, ServerMoves, Types'
    PROVE  HonestInv'
<1> USE ConnsOfClients DEF HonestInv, ServerMoves, commands, Asks
<1>1. QuietInv'
  BY DEF QuietInv, Unopened
<1>2. HandledInv'
  BY DEF HandledInv, Asked
<1>3. ResultsAreHonest'
  BY DEF ResultsAreHonest, QuietInv, HandledInv, Asked, Types
<1>4. QED
  BY <1>1, <1>2, <1>3

Serving == {k \in Conns : stage[k] \in {"decode", "handle"}}

LEMMA ServerActions ==
    ASSUME HonestInv, slots > 0 \/ Serving = {},
           \/ Listen \/ RegisterSearch \/ CloseListener \/ Exit \/ AcceptFails
           \/ \E k \in Conns : Accept(k) \/ Serve(k)
    PROVE  ServerMoves /\ Types'
<1> USE DEF HonestInv, ServerMoves, Types, QuietInv, Asked, conns, commands, server
<1>1. CASE Listen \/ RegisterSearch \/ AcceptFails
  BY <1>1 DEF Listen, RegisterSearch, AcceptFails, Asks
<1>2. CASE CloseListener
  BY <1>2 DEF CloseListener
<1>3. CASE Exit
  BY <1>3 DEF Exit
<1>4. ASSUME NEW k \in Conns, Accept(k)
      PROVE  ServerMoves /\ Types'
  BY <1>4 DEF Accept
<1>5. ASSUME NEW k \in Conns, NEW r \in {"ok", "error", "closed"}, Finish(k, r),
             stage[k] \in {"decode", "handle"}, r = "ok" => stage[k] = "handle"
      PROVE  ServerMoves /\ Types'
  <2>1. slots > 0
    BY <1>5 DEF Serving
  <2>2. QED
    BY <1>5, <2>1 DEF Finish
<1>6. ASSUME NEW k \in Conns, Dispatch(k)
      PROVE  ServerMoves /\ Types'
  BY <1>6 DEF Dispatch
<1>7. ASSUME NEW k \in Conns, Serve(k)
      PROVE  ServerMoves /\ Types'
  BY <1>5, <1>6, <1>7 DEF Serve, DecodeError, UnknownType, Answer
<1>8. QED
  BY <1>1, <1>2, <1>3, <1>4, <1>7

LEMMA ClientActions ==
    ASSUME HonestInv, NEW c \in Clients, Client(c)
    PROVE  HonestInv'
<1> USE ConnsOfClients
    DEF HonestInv, Types, QuietInv, Unopened, HandledInv, ResultsAreHonest, Asked,
        Asks, conns, commands, server
<1>1. <<c, "ping">> \in Conns /\ <<c, "search">> \in Conns
  OBVIOUS
<1>2. CASE DialPing(c) \/ DialSearch(c)
  <2>1. PICK a \in Asks : /\ client[c] = IF a = "ping" THEN "start" ELSE "reachable"
                         /\ Dial(c, client[c], a)
    BY <1>2 DEF DialPing, DialSearch, Dial
  <2>2. stage[<<c, a>>] = "none" /\ <<c, a>> \in Conns
    BY <1>1, <2>1
  <2>3. CASE daemon = "serving"
    <3>1. /\ stage' = [stage EXCEPT ![<<c, a>>] = "backlog"]
          /\ client' = [client EXCEPT ![c] = a]
          /\ UNCHANGED <<handlers, slots, sent, wire, noFallback, outcome>>
      BY <2>1, <2>3 DEF Dial
    <3>2. Types'
      BY <2>2, <3>1
    <3>3. QuietInv'
      BY <2>1, <2>2, <3>1
    <3>4. HandledInv' /\ ResultsAreHonest'
      BY <2>2, <3>1
    <3>5. QED
      BY <3>2, <3>3, <3>4
  <2>4. CASE daemon # "serving"
    <3>1. /\ client' = [client EXCEPT ![c] = "fallback"]
          /\ UNCHANGED <<handlers, slots, stage, sent, wire, noFallback, outcome>>
      BY <2>1, <2>4 DEF Dial
    <3>2. QED
      BY <3>1
  <2>5. QED
    BY <2>3, <2>4
<1>3. CASE Send(c)
  <2>1. /\ client[c] \in Asks /\ <<c, client[c]>> \in Conns
        /\ sent' = sent \cup {<<c, client[c]>>}
        /\ UNCHANGED <<handlers, slots, stage, wire, client, noFallback, outcome>>
    BY <1>3 DEF Send
  <2>2. QED
    BY <2>1
<1>4. CASE PingAnswered(c)
  BY <1>4 DEF PingAnswered
<1>5. CASE SearchAnswered(c)
  <2>1. /\ wire[<<c, "search">>] = "ok"
        /\ client' = [client EXCEPT ![c] = "end"]
        /\ outcome' = [outcome EXCEPT ![c] = "semantic"]
        /\ UNCHANGED <<handlers, slots, stage, sent, wire, noFallback>>
    BY <1>5 DEF SearchAnswered, End
  <2>2. <<c, "search">> \in sent /\ "search" \in handlers
    BY <1>1, <2>1
  <2>3. ResultsAreHonest'
    <3>1. SUFFICES ASSUME NEW d \in Clients
                   PROVE  /\ outcome'[d] = "semantic" =>
                                /\ wire[<<d, "search">>] = "ok"
                                /\ <<d, "search">> \in sent
                                /\ "search" \in handlers
                          /\ outcome'[d] = "fts" => ~ noFallback[d]
      BY <2>1
    <3>2. CASE d = c
      BY <2>1, <2>2, <3>2
    <3>3. CASE d # c
      BY <2>1, <3>3
    <3>4. QED
      BY <3>2, <3>3
  <2>4. Types' /\ QuietInv' /\ HandledInv'
    BY <2>1
  <2>5. QED
    BY <2>3, <2>4
<1>6. CASE Refused(c) \/ TimesOut(c)
  BY <1>6 DEF Refused, TimesOut, GiveUp
<1>7. CASE Fallback(c)
  BY <1>7 DEF Fallback, End
<1>8. QED
  BY <1>2, <1>3, <1>4, <1>5, <1>6, <1>7 DEF Client

-----------------------------------------------------------------------------
(* The slots. *)

SlotsInv == Types /\ SlotsCountConnections

LEMMA ServingFinite == IsFiniteSet(Conns) /\ \A S \in SUBSET Conns : IsFiniteSet(S)
<1>1. IsFiniteSet(Asks)
  <2>1. IsFiniteSet({} \cup {"ping"})
    BY FS_EmptySet, FS_AddElement
  <2>2. IsFiniteSet(({} \cup {"ping"}) \cup {"search"})
    BY <2>1, FS_AddElement
  <2>3. Asks = ({} \cup {"ping"}) \cup {"search"}
    BY DEF Asks
  <2>4. QED
    BY <2>2, <2>3
<1>2. IsFiniteSet(Conns)
  BY <1>1, FS_Product, IpcAssumption DEF Conns
<1>3. QED
  BY <1>2, FS_Subset

LEMMA SlotsPositive ==
    ASSUME SlotsInv
    PROVE  slots > 0 \/ Serving = {}
<1>1. slots = Cardinality(Serving)
  BY DEF SlotsInv, SlotsCountConnections, Serving
<1>2. IsFiniteSet(Serving) /\ Cardinality(Serving) \in Nat
  BY ServingFinite, FS_CardinalityType DEF Serving
<1>3. Cardinality(Serving) = 0 <=> Serving = {}
  BY <1>2, FS_EmptySet
<1>4. QED
  BY <1>1, <1>2, <1>3

LEMMA SlotsStep ==
    ASSUME SlotsInv, QuietInv, [Next]_vars
    PROVE  SlotsCountConnections'
<1> USE DEF SlotsInv, Types, Serving, conns, commands, server
<1>1. SUFFICES slots' = Cardinality(Serving')
  BY DEF SlotsCountConnections
<1>2. slots = Cardinality(Serving) /\ IsFiniteSet(Serving)
  BY ServingFinite DEF SlotsCountConnections
<1>3. ASSUME slots' = slots, Serving' = Serving
      PROVE  slots' = Cardinality(Serving')
  BY <1>2, <1>3
<1>4. ASSUME NEW k \in Conns, k \notin Serving, slots' = slots + 1,
             Serving' = Serving \cup {k}
      PROVE  slots' = Cardinality(Serving')
  BY <1>2, <1>4, FS_AddElement
<1>5. ASSUME NEW k \in Conns, NEW r, Finish(k, r), k \in Serving
      PROVE  slots' = Cardinality(Serving')
  <2>1. slots' = slots - 1 /\ Serving' = Serving \ {k}
    BY <1>5 DEF Finish
  <2>2. QED
    BY <1>2, <1>5, <2>1, FS_RemoveElement
<1>6. CASE Listen \/ RegisterSearch \/ AcceptFails
  BY <1>3, <1>6 DEF Listen, RegisterSearch, AcceptFails
<1>7. CASE CloseListener
  BY <1>3, <1>7 DEF CloseListener
<1>8. CASE Exit
  <2>1. slots' = 0 /\ Serving' = {}
    BY <1>8 DEF Exit
  <2>2. QED
    BY <2>1, FS_EmptySet
<1>9. ASSUME NEW k \in Conns, Accept(k)
      PROVE  slots' = Cardinality(Serving')
  <2>1. CASE slots < ConnLimit
    BY <1>4, <1>9, <2>1 DEF Accept
  <2>2. CASE ~ (slots < ConnLimit)
    BY <1>3, <1>9, <2>2 DEF Accept
  <2>3. QED
    BY <2>1, <2>2
<1>10. ASSUME NEW k \in Conns, Serve(k)
       PROVE  slots' = Cardinality(Serving')
  <2>1. CASE Dispatch(k)
    BY <1>3, <2>1 DEF Dispatch
  <2>2. CASE DecodeError(k) \/ UnknownType(k) \/ Answer(k)
    BY <1>5, <2>2 DEF DecodeError, UnknownType, Answer
  <2>3. QED
    BY <1>10, <2>1, <2>2 DEF Serve
<1>11. ASSUME NEW c \in Clients, DialPing(c) \/ DialSearch(c)
       PROVE  slots' = Cardinality(Serving')
  <2>1. PICK a \in Asks : /\ client[c] = IF a = "ping" THEN "start" ELSE "reachable"
                         /\ Dial(c, client[c], a)
    BY <1>11 DEF DialPing, DialSearch, Dial, Asks
  <2>2. <<c, a>> \in Conns /\ stage[<<c, a>>] = "none"
    BY <2>1, ConnsOfClients DEF QuietInv, Unopened, Asks
  <2>3. CASE daemon = "serving"
    <3>1. stage' = [stage EXCEPT ![<<c, a>>] = "backlog"] /\ slots' = slots
      BY <2>1, <2>3 DEF Dial
    <3>2. Serving' = Serving
      BY <2>2, <3>1
    <3>3. QED
      BY <1>3, <3>1, <3>2
  <2>4. CASE daemon # "serving"
    BY <1>3, <2>1, <2>4 DEF Dial
  <2>5. QED
    BY <2>3, <2>4
<1>12. ASSUME NEW c \in Clients, Client(c), ~ (DialPing(c) \/ DialSearch(c))
       PROVE  slots' = Cardinality(Serving')
  BY <1>3, <1>12
  DEF Client, Send, PingAnswered, SearchAnswered, Refused, TimesOut, Fallback
<1>13. CASE UNCHANGED vars
  BY <1>3, <1>13 DEF vars
<1>14. QED
  BY <1>6, <1>7, <1>8, <1>9, <1>10, <1>11, <1>12, <1>13 DEF Next

IpcInv == HonestInv /\ SlotsCountConnections

LEMMA IpcInit == Init => IpcInv
<1> SUFFICES ASSUME Init
             PROVE  IpcInv
    OBVIOUS
<1>1. HonestInv
  BY HonestInit
<1>2. {k \in Conns : stage[k] \in {"decode", "handle"}} = {} /\ slots = 0
  BY DEF Init
<1>3. SlotsCountConnections
  BY <1>2, FS_EmptySet DEF SlotsCountConnections
<1>4. QED
  BY <1>1, <1>3 DEF IpcInv

LEMMA IpcStep == IpcInv /\ [Next]_vars => IpcInv'
<1> SUFFICES ASSUME IpcInv, [Next]_vars
             PROVE  IpcInv'
    OBVIOUS
<1>1. HonestInv /\ SlotsInv /\ QuietInv
  BY DEF IpcInv, HonestInv, SlotsInv
<1>2. SlotsCountConnections'
  BY <1>1, SlotsStep
<1>3. HonestInv'
  <2>1. CASE UNCHANGED vars
    BY <1>1, <2>1
    DEF vars, server, conns, commands, HonestInv, Types, QuietInv, Unopened,
        HandledInv, Asked, ResultsAreHonest
  <2>2. CASE \E c \in Clients : Client(c)
    BY <1>1, <2>2, ClientActions
  <2>3. CASE \/ Listen \/ RegisterSearch \/ CloseListener \/ Exit \/ AcceptFails
             \/ \E k \in Conns : Accept(k) \/ Serve(k)
    <3>1. ServerMoves /\ Types'
      BY <1>1, <2>3, SlotsPositive, ServerActions
    <3>2. QED
      BY <1>1, <3>1, ServerStep
  <2>4. QED
    BY <2>1, <2>2, <2>3 DEF Next
<1>4. QED
  BY <1>2, <1>3 DEF IpcInv

(* Semantic results are the search handler's answer to this very request,    *)
(* and nobody who asked for --no-fallback gets keyword results (search.go    *)
(* 64-154), whatever the daemon does meanwhile.                              *)
THEOREM ResultsHonest == Spec => []ResultsAreHonest
<1>1. IpcInv => ResultsAreHonest
  BY DEF IpcInv, HonestInv
<1>2. QED
  BY <1>1, IpcInit, IpcStep, PTL DEF Spec

(* connLimit holds one element for each connection that is being served, on  *)
(* every path through handleConnection (server.go 65-117).                   *)
THEOREM SlotsCorrect == Spec => []SlotsCountConnections
<1>1. IpcInv => SlotsCountConnections
  BY DEF IpcInv
<1>2. QED
  BY <1>1, IpcInit, IpcStep, PTL DEF Spec

(* What the slots do not tell: no path takes more than ConnLimit of them.    *)
RestInv == /\ daemon \in {"starting", "serving", "closing", "gone"}
           /\ accepting \in BOOLEAN
           /\ slots <= ConnLimit
           /\ noFallback \in [Clients -> BOOLEAN]

LEMMA RestStep == IpcInv /\ RestInv /\ [Next]_vars => RestInv'
<1> SUFFICES ASSUME IpcInv, RestInv, [Next]_vars
             PROVE  RestInv'
    OBVIOUS
<1>1. slots \in Nat /\ ConnLimit \in Nat \ {0}
  BY IpcAssumption DEF IpcInv, HonestInv, Types
<1>2. ASSUME UNCHANGED <<daemon, accepting, noFallback>>, slots' \in 0 .. ConnLimit
      PROVE  RestInv'
  BY <1>1, <1>2 DEF RestInv
<1>3. slots \in 0 .. ConnLimit /\ 0 \in 0 .. ConnLimit
  BY <1>1 DEF RestInv
<1>4. CASE Listen \/ RegisterSearch \/ CloseListener \/ AcceptFails \/ Exit
  <2>1. /\ daemon' \in {daemon, "serving", "closing", "gone"}
        /\ accepting' \in {accepting, TRUE, FALSE}
        /\ slots' \in {slots, 0} /\ noFallback' = noFallback
    BY <1>4 DEF Listen, RegisterSearch, CloseListener, AcceptFails, Exit, conns, commands
  <2>2. daemon' \in {"starting", "serving", "closing", "gone"}
    BY <2>1 DEF RestInv
  <2>3. slots' <= ConnLimit
    BY <1>1, <2>1 DEF RestInv
  <2>4. accepting' \in BOOLEAN /\ noFallback' \in [Clients -> BOOLEAN]
    BY <2>1, ZenonT(30) DEF RestInv
  <2>5. QED
    BY <2>2, <2>3, <2>4 DEF RestInv
<1>5. ASSUME NEW k \in Conns, Accept(k)
      PROVE  RestInv'
  BY <1>1, <1>2, <1>3, <1>5 DEF Accept, server, commands
<1>6. ASSUME NEW k \in Conns, Serve(k)
      PROVE  RestInv'
  <2>1. UNCHANGED <<daemon, accepting, noFallback>> /\ (slots' = slots \/ slots' = slots - 1)
    BY <1>6 DEF Serve, DecodeError, Dispatch, UnknownType, Answer, Finish, server, commands
  <2>2. slots' \in Nat
    BY IpcStep DEF IpcInv, HonestInv, Types
  <2>3. QED
    BY <1>1, <1>2, <1>3, <2>1, <2>2
<1>7. ASSUME NEW c \in Clients, Client(c)
      PROVE  RestInv'
  <2>1. UNCHANGED <<daemon, accepting, noFallback, slots>>
    <3>1. CASE DialPing(c) \/ DialSearch(c)
      BY <3>1 DEF DialPing, DialSearch, Dial, server
    <3>2. CASE Send(c) \/ PingAnswered(c) \/ SearchAnswered(c)
      BY <3>2 DEF Send, PingAnswered, SearchAnswered, server, conns, commands
    <3>3. CASE Refused(c) \/ TimesOut(c) \/ Fallback(c)
      BY <3>3 DEF Refused, TimesOut, Fallback, server, conns
    <3>4. QED
      BY <1>7, <3>1, <3>2, <3>3 DEF Client
  <2>2. QED
    BY <1>2, <1>3, <2>1
<1>8. CASE UNCHANGED vars
  BY <1>2, <1>3, <1>8 DEF vars, server, conns, commands
<1>9. QED
  BY <1>4, <1>5, <1>6, <1>7, <1>8 DEF Next

(* Every variable of the socket and of the commands keeps its type; the      *)
(* slots stay within the capacity of connLimit.                              *)
THEOREM IpcTypeCorrect == Spec => []TypeOK
<1>1. Init => RestInv
  <2>1. 0 <= ConnLimit
    BY IpcAssumption
  <2>2. Init => /\ daemon \in {"starting", "serving", "closing", "gone"}
                /\ accepting \in BOOLEAN /\ slots = 0
                /\ noFallback \in [Clients -> BOOLEAN]
    BY DEF Init
  <2>3. QED
    BY <2>1, <2>2 DEF RestInv
<1>2. IpcInv /\ RestInv => TypeOK
  <2> SUFFICES ASSUME IpcInv, RestInv PROVE TypeOK
      OBVIOUS
  <2>1. Types
    BY DEF IpcInv, HonestInv
  <2>2. slots \in 0 .. ConnLimit
    BY <2>1, IpcAssumption DEF Types, RestInv
  <2>3. QED
    BY <2>1, <2>2 DEF Types, RestInv, TypeOK
<1>3. QED
  BY <1>1, <1>2, IpcInit, IpcStep, RestStep, PTL DEF Spec
=============================================================================
