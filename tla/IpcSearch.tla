------------------------------ MODULE IpcSearch ------------------------------
(* `synth search` and the daemon's socket: the client that pings, asks and   *)
(* falls back to keyword search (src/internal/search/search.go,              *)
(* ipc/client.go), and the server that accepts, limits, serves and shuts     *)
(* down (ipc/server.go, daemon.go).  A connection is a pair of a client and  *)
(* what it asks.  Time is not modelled: a deadline may pass at any moment.   *)
(* Sockets are external: a connection waits in the kernel's backlog whether  *)
(* or not somebody accepts it, and a process that exits closes its ends.     *)
EXTENDS Integers, FiniteSets

CONSTANTS Clients,     \* one search command each
          ConnLimit    \* the capacity of Server.connLimit

ASSUME IpcAssumption == IsFiniteSet(Clients) /\ ConnLimit \in Nat \ {0}

Asks == {"ping", "search"}
Conns == Clients \X Asks

VARIABLES daemon,      \* "starting", "serving", "closing" (listener closed), "gone"
          handlers,    \* Server.handlers
          accepting,   \* is acceptLoop running?
          slots,       \* the number of elements in connLimit
          stage,       \* the server's side of each connection
          sent,        \* connections on which the client has sent its request
          wire,        \* what the client can read on each connection
          client,      \* where each search command is
          noFallback,  \* was it started with --no-fallback?
          outcome      \* what it ended with

server == <<daemon, handlers, accepting>>
conns == <<slots, stage, sent, wire>>
commands == <<client, noFallback, outcome>>
vars == <<server, conns, commands>>

TypeOK == /\ daemon \in {"starting", "serving", "closing", "gone"}
          /\ handlers \subseteq Asks
          /\ accepting \in BOOLEAN
          /\ slots \in 0 .. ConnLimit
          /\ stage \in [Conns -> {"none", "backlog", "decode", "handle", "done"}]
          /\ sent \subseteq Conns
          /\ wire \in [Conns -> {"empty", "ok", "error", "closed"}]
          /\ client \in [Clients -> {"start", "ping", "reachable", "search", "fallback", "end"}]
          /\ noFallback \in [Clients -> BOOLEAN]
          /\ outcome \in [Clients -> {"none", "semantic", "fts", "failed"}]

Init == /\ daemon = "starting"
        /\ handlers = {"ping"}
        /\ accepting = FALSE
        /\ slots = 0
        /\ stage = [k \in Conns |-> "none"]
        /\ sent = {}
        /\ wire = [k \in Conns |-> "empty"]
        /\ client = [c \in Clients |-> "start"]
        /\ noFallback \in [Clients -> BOOLEAN]
        /\ outcome = [c \in Clients |-> "none"]

-----------------------------------------------------------------------------
(* The daemon's life: it listens and serves before it opens the store and    *)
(* registers the search handler.                                             *)
Listen == /\ daemon = "starting"
          /\ daemon' = "serving"
          /\ accepting' = TRUE
          /\ UNCHANGED <<handlers, conns, commands>>

RegisterSearch == /\ daemon = "serving"
                  /\ handlers' = handlers \cup {"search"}
                  /\ UNCHANGED <<daemon, accepting, conns, commands>>

(* Server.Stop closes the listener: the kernel drops its backlog. *)
CloseListener == /\ daemon = "serving"
                 /\ daemon' = "closing"
                 /\ accepting' = FALSE
                 /\ wire' = [k \in Conns |-> IF stage[k] = "backlog" THEN "closed" ELSE wire[k]]
                 /\ stage' = [k \in Conns |-> IF stage[k] = "backlog" THEN "done" ELSE stage[k]]
                 /\ UNCHANGED <<handlers, slots, sent, commands>>

(* The process exits, or is killed, with handlers in flight. *)
Exit == /\ daemon # "gone"
        /\ daemon' = "gone"
        /\ accepting' = FALSE
        /\ slots' = 0
        /\ wire' = [k \in Conns |-> IF stage[k] \in {"backlog", "decode", "handle"}
                                    THEN "closed" ELSE wire[k]]
        /\ stage' = [k \in Conns |-> IF stage[k] = "none" THEN "none" ELSE "done"]
        /\ UNCHANGED <<handlers, sent, commands>>

\* mutant: the slot is taken before the limit is looked at
AcceptOneTooMany(k) == /\ accepting
                       /\ stage[k] = "backlog"
                       /\ slots <= ConnLimit
                       /\ slots' = slots + 1
                       /\ stage' = [stage EXCEPT ![k] = "decode"]
                       /\ UNCHANGED <<server, sent, wire, commands>>

(* acceptLoop: take a slot and serve, or close the connection at the limit.  *)
(* An error of Accept ends the loop, although the daemon goes on.            *)
Accept(k) == /\ accepting
             /\ stage[k] = "backlog"
             /\ IF slots < ConnLimit
                THEN /\ slots' = slots + 1
                     /\ stage' = [stage EXCEPT ![k] = "decode"]
                     /\ UNCHANGED wire
                ELSE /\ stage' = [stage EXCEPT ![k] = "done"]
                     /\ wire' = [wire EXCEPT ![k] = "closed"]
                     /\ UNCHANGED slots
             /\ UNCHANGED <<server, sent, commands>>

AcceptFails == /\ accepting
               /\ accepting' = FALSE
               /\ UNCHANGED <<daemon, handlers, conns, commands>>

(* handleConnection ends: its defers release the slot and close. *)
Finish(k, reply) == /\ wire' = [wire EXCEPT ![k] = reply]
                    /\ stage' = [stage EXCEPT ![k] = "done"]
                    /\ slots' = slots - 1
                    /\ UNCHANGED <<server, sent, commands>>

\* mutant: the slot is released by the last line of the function only
DecodeErrorKeepsSlot(k) == /\ stage[k] = "decode"
                           /\ \E reply \in {"error", "closed"} :
                                 wire' = [wire EXCEPT ![k] = reply]
                           /\ stage' = [stage EXCEPT ![k] = "done"]
                           /\ UNCHANGED <<server, slots, sent, commands>>

\* mutant: there is no deadline, so only an early end of the client ends it
DecodeErrorAtEOF(k) == /\ stage[k] = "decode"
                       /\ client[k[1]] # k[2]
                       /\ \E reply \in {"error", "closed"} : Finish(k, reply)

(* No request comes before the server's deadline, or the client is gone. *)
DecodeError(k) == /\ stage[k] = "decode"
                  /\ \E reply \in {"error", "closed"} : Finish(k, reply)

Dispatch(k) == /\ stage[k] = "decode"
               /\ k \in sent
               /\ k[2] \in handlers
               /\ stage' = [stage EXCEPT ![k] = "handle"]
               /\ UNCHANGED <<server, slots, sent, wire, commands>>

UnknownType(k) == /\ stage[k] = "decode"
                  /\ k \in sent
                  /\ k[2] \notin handlers
                  /\ Finish(k, "error")

(* The handler returns; after the deadline, its answer cannot be written.    *)
(* A ping always succeeds, a search may fail (no model, no store).           *)
Answer(k) == /\ stage[k] = "handle"
             /\ \/ Finish(k, "ok") \/ Finish(k, "closed")
                \/ k[2] = "search" /\ Finish(k, "error")

-----------------------------------------------------------------------------
(* searchSemantic: ping first; only a daemon that answers is asked. *)
Dial(c, from, ask) ==
    /\ client[c] = from
    /\ IF daemon = "serving"
       THEN /\ stage' = [stage EXCEPT ![<<c, ask>>] = "backlog"]
            /\ client' = [client EXCEPT ![c] = ask]
       ELSE /\ client' = [client EXCEPT ![c] = "fallback"]
            /\ UNCHANGED stage
    /\ UNCHANGED <<server, slots, sent, wire, noFallback, outcome>>

DialPing(c) == Dial(c, "start", "ping")
DialSearch(c) == Dial(c, "reachable", "search")

Send(c) == /\ client[c] \in Asks
           /\ <<c, client[c]>> \notin sent
           /\ sent' = sent \cup {<<c, client[c]>>}
           /\ UNCHANGED <<server, slots, stage, wire, commands>>

End(c, how) == /\ client' = [client EXCEPT ![c] = "end"]
               /\ outcome' = [outcome EXCEPT ![c] = how]

GiveUp(c) == /\ client' = [client EXCEPT ![c] = "fallback"]
             /\ UNCHANGED outcome

PingAnswered(c) == /\ client[c] = "ping"
                   /\ wire[<<c, "ping">>] = "ok"
                   /\ client' = [client EXCEPT ![c] = "reachable"]
                   /\ UNCHANGED <<server, conns, noFallback, outcome>>

\* mutant: the status of the response is not looked at
SearchRead(c) == /\ client[c] = "search"
                 /\ wire[<<c, "search">>] \in {"ok", "error"}
                 /\ End(c, "semantic")
                 /\ UNCHANGED <<server, conns, noFallback>>

SearchAnswered(c) == /\ client[c] = "search"
                     /\ wire[<<c, "search">>] = "ok"
                     /\ End(c, "semantic")
                     /\ UNCHANGED <<server, conns, noFallback>>

(* An error, or a connection that was closed. *)
Refused(c) == /\ client[c] \in Asks
              /\ wire[<<c, client[c]>>] \in {"error", "closed"}
              /\ GiveUp(c)
              /\ UNCHANGED <<server, conns, noFallback>>

\* mutant: the deadline is set for the writing of the request only
SendTimesOut(c) == /\ client[c] \in Asks
                   /\ <<c, client[c]>> \notin sent
                   /\ GiveUp(c)
                   /\ UNCHANGED <<server, conns, noFallback>>

(* The client's deadline passes before it has read an answer. *)
TimesOut(c) == /\ client[c] \in Asks
               /\ GiveUp(c)
               /\ UNCHANGED <<server, conns, noFallback>>

(* Search: keyword search on the local database, unless --no-fallback. *)
Fallback(c) == /\ client[c] = "fallback"
               /\ \/ ~ noFallback[c] /\ End(c, "fts")
                  \/ End(c, "failed")
               /\ UNCHANGED <<server, conns, noFallback>>

-----------------------------------------------------------------------------
Client(c) == \/ DialPing(c) \/ DialSearch(c) \/ Send(c)
             \/ PingAnswered(c) \/ SearchAnswered(c) \/ Refused(c) \/ TimesOut(c)
             \/ Fallback(c)

Serve(k) == DecodeError(k) \/ Dispatch(k) \/ UnknownType(k) \/ Answer(k)

Next == \/ Listen \/ RegisterSearch \/ CloseListener \/ Exit \/ AcceptFails
        \/ \E k \in Conns : Accept(k) \/ Serve(k)
        \/ \E c \in Clients : Client(c)

Spec == Init /\ [][Next]_vars

(* The commands go on: their deadlines are their own. *)
ClientsGoOn == \A c \in Clients : WF_vars(Client(c))

(* The goroutines of handleConnection go on: the deadline ends a read, and   *)
(* handlers return.                                                          *)
ServerGoesOn == \A k \in Conns : WF_vars(Serve(k))

-----------------------------------------------------------------------------
(* The slots of connLimit count the connections that are being served, on    *)
(* every path: none is lost, so the limit never refuses for ever.            *)
SlotsCountConnections ==
    slots = Cardinality({k \in Conns : stage[k] \in {"decode", "handle"}})

(* Results are called semantic only when this very request was answered by   *)
(* the search handler; results of a keyword search are never shown to a user *)
(* who asked for none (search.go 64-94).                                     *)
ResultsAreHonest ==
    \A c \in Clients :
        /\ outcome[c] = "semantic" => /\ wire[<<c, "search">>] = "ok"
                                      /\ <<c, "search">> \in sent
                                      /\ "search" \in handlers
        /\ outcome[c] = "fts" => ~ noFallback[c]

(* Every search ends, whether the daemon is deaf, slow, full, closing down   *)
(* or not there: nothing is assumed of the daemon.                           *)
SearchesEnd == ClientsGoOn => \A c \in Clients : <>(client[c] = "end")

(* A client that hangs cannot keep its slot: every accepted connection is    *)
(* done with in the end.  Nothing is assumed of the clients, who may be      *)
(* stopped in the middle of a request.                                       *)
SlotsAreFreed ==
    ServerGoesOn =>
        \A k \in Conns : stage[k] \in {"decode", "handle"} ~> stage[k] = "done"
=============================================================================
