---------------------------- MODULE EmbedEngine ----------------------------
(* The embedding engine (src/internal/embed/engine.go): a model that is      *)
(* loaded by the first call that needs it and unloaded by an idle timer.     *)
(* The embedder calls EmbedBatch, every search handler calls Embed, and the  *)
(* timer's callback unloads: each of them holds the mutex mu while it works. *)
(* hugot's sessions and the runtime's timers are external.  Time is not      *)
(* modelled: an armed timer may fire at any moment.                          *)
EXTENDS Integers, FiniteSets

CONSTANTS Callers,      \* goroutines that call the engine
          Sessions,     \* hugot sessions
          Timers,       \* timers of the Go runtime
          Nil,          \* a nil pointer; the holder of a free mutex
          MaxCalls      \* bound on the number of calls

ASSUME EngineAssumption == /\ Nil \notin Callers \cup Sessions \cup Timers
                           /\ MaxCalls \in Nat

VARIABLES mu,         \* the caller that holds Engine.mu, or Nil
          session,    \* Engine.session
          pipeline,   \* Engine.pipeline, as the session it was built on
          live,       \* sessions created and not destroyed (hugot)
          idleTimer,  \* Engine.idleTimer
          armed,      \* timers that will fire (the Go runtime)
          fired,      \* timers that fired and whose callback waits for mu
          pc,         \* where each caller is
          calls       \* calls made so far

engine == <<session, pipeline, live>>
timers == <<idleTimer, armed, fired>>
vars == <<mu, engine, timers, pc, calls>>

TypeOK == /\ mu \in Callers \cup {Nil}
          /\ session \in Sessions \cup {Nil}
          /\ pipeline \in Sessions \cup {Nil}
          /\ live \in SUBSET Sessions
          /\ idleTimer \in Timers \cup {Nil}
          /\ armed \in SUBSET Timers /\ fired \in SUBSET Timers
          /\ pc \in [Callers -> {"out", "embed", "stop", "load", "build", "run",
                               "reset", "return"}]
          /\ calls \in 0 .. MaxCalls

Init == /\ mu = Nil
        /\ session = Nil /\ pipeline = Nil /\ live = {}
        /\ idleTimer = Nil /\ armed = {} /\ fired = {}
        /\ pc = [c \in Callers |-> "out"]
        /\ calls = 0

Goto(c, label) == pc' = [pc EXCEPT ![c] = label]

-----------------------------------------------------------------------------
(* unload: destroy the session, if there is one, and drop the pipeline. *)
Unload == IF session = Nil
          THEN UNCHANGED engine
          ELSE /\ live' = live \ {session}
               /\ session' = Nil
               /\ pipeline' = Nil

(* A call of Embed, EmbedBatch or Shutdown: it waits for the mutex. *)
Call(c) == /\ pc[c] = "out"
           /\ calls < MaxCalls
           /\ calls' = calls + 1
           /\ \E op \in {"embed", "stop"} : Goto(c, op)
           /\ UNCHANGED <<mu, engine, timers>>

(* mu.Lock(): an empty batch returns at once, a call that finds a pipeline   *)
(* goes on to run it, any other call loads the model first.                  *)
Lock(c) == /\ pc[c] = "embed"
           /\ mu = Nil
           /\ mu' = c
           /\ \/ Goto(c, "return")
              \/ Goto(c, IF pipeline = Nil THEN "load" ELSE "run")
           /\ UNCHANGED <<engine, timers, calls>>

(* load, when the model is absent or no backend gives a session. *)
LoadFails(c) == /\ pc[c] = "load"
                /\ Goto(c, "return")
                /\ UNCHANGED <<mu, engine, timers, calls>>

NewSession(c) == /\ pc[c] = "load"
                 /\ \E s \in Sessions \ live : /\ session' = s
                                               /\ live' = live \cup {s}
                 /\ Goto(c, "build")
                 /\ UNCHANGED <<mu, pipeline, timers, calls>>

NewPipeline(c) == /\ pc[c] = "build"
                  /\ pipeline' = session
                  /\ Goto(c, "run")
                  /\ UNCHANGED <<mu, session, live, timers, calls>>

\* mutant: the error is returned and the session is only forgotten
NewPipelineFailsUndestroyed(c) == /\ pc[c] = "build"
                                  /\ session' = Nil
                                  /\ Goto(c, "return")
                                  /\ UNCHANGED <<mu, pipeline, live, timers, calls>>

(* The pipeline cannot be built: load takes the new session down again. *)
NewPipelineFails(c) == /\ pc[c] = "build"
                       /\ live' = live \ {session}
                       /\ session' = Nil
                       /\ Goto(c, "return")
                       /\ UNCHANGED <<mu, pipeline, timers, calls>>

(* RunPipeline and the check of its output: an error returns at once. *)
Run(c) == /\ pc[c] = "run"
          /\ Goto(c, "reset") \/ Goto(c, "return")
          /\ UNCHANGED <<mu, engine, timers, calls>>

\* mutant: the old timer is not stopped
ResetIdleTimerWithoutStop(c) ==
    /\ pc[c] = "reset"
    /\ \E t \in Timers \ (armed \cup fired \cup {idleTimer}) :
          /\ idleTimer' = t
          /\ armed' = armed \cup {t}
    /\ Goto(c, "return")
    /\ UNCHANGED <<mu, engine, fired, calls>>

\* mutant: the timer is armed by the first success only
ResetIdleTimerOnce(c) == /\ pc[c] = "reset"
                         /\ IF idleTimer = Nil
                            THEN \E t \in Timers : /\ idleTimer' = t
                                                   /\ armed' = armed \cup {t}
                            ELSE UNCHANGED <<idleTimer, armed>>
                         /\ Goto(c, "return")
                         /\ UNCHANGED <<mu, engine, fired, calls>>

(* resetIdleTimer: stop the timer of the last success and arm a new one.     *)
(* Stop has no effect on a timer that has already fired.                     *)
ResetIdleTimer(c) == /\ pc[c] = "reset"
                     /\ \E t \in Timers \ (armed \cup fired \cup {idleTimer}) :
                           /\ idleTimer' = t
                           /\ armed' = (armed \ {idleTimer}) \cup {t}
                     /\ Goto(c, "return")
                     /\ UNCHANGED <<mu, engine, fired, calls>>

Return(c) == /\ pc[c] = "return"
             /\ mu' = Nil
             /\ Goto(c, "out")
             /\ UNCHANGED <<engine, timers, calls>>

(* Shutdown, in one critical section. *)
Shutdown(c) == /\ pc[c] = "stop"
               /\ mu = Nil
               /\ armed' = armed \ {idleTimer}
               /\ Unload
               /\ Goto(c, "out")
               /\ UNCHANGED <<mu, idleTimer, fired, calls>>

(* The idle timer runs out; its callback takes the mutex and unloads. *)
Fire(t) == /\ t \in armed
           /\ armed' = armed \ {t}
           /\ fired' = fired \cup {t}
           /\ UNCHANGED <<mu, engine, idleTimer, pc, calls>>

\* mutant: the callback does not take the mutex
IdleUnloadUnlocked(t) == /\ t \in fired
                         /\ fired' = fired \ {t}
                         /\ Unload
                         /\ UNCHANGED <<mu, idleTimer, armed, pc, calls>>

IdleUnload(t) == /\ t \in fired
                 /\ mu = Nil
                 /\ fired' = fired \ {t}
                 /\ Unload
                 /\ UNCHANGED <<mu, idleTimer, armed, pc, calls>>

-----------------------------------------------------------------------------
Step(c) == \/ Lock(c) \/ LoadFails(c) \/ NewSession(c)
           \/ NewPipeline(c) \/ NewPipelineFails(c) \/ Run(c)
           \/ ResetIdleTimer(c) \/ Return(c) \/ Shutdown(c)

Next == \/ \E c \in Callers : Call(c) \/ Step(c)
        \/ \E t \in Timers : Fire(t) \/ IdleUnload(t)

Spec == Init /\ [][Next]_vars

(* A call that has begun goes on, and sync.Mutex is starvation-free; the     *)
(* runtime fires every armed timer.  Nobody has to call.                     *)
FairSpec == /\ Spec
            /\ \A c \in Callers : SF_vars(Step(c))
            /\ \A t \in Timers : WF_vars(Fire(t)) /\ SF_vars(IdleUnload(t))

-----------------------------------------------------------------------------
(* A call runs the pipeline only on a session that is alive: neither a timer *)
(* whose Stop came too late nor a Shutdown destroys the session under a      *)
(* running batch, and no pipeline of a destroyed session is ever reused.     *)
RunsOnLiveSession ==
    \A c \in Callers : pc[c] = "run" => pipeline \in live

(* The engine never loses a session, neither when a load stops half-way nor  *)
(* when it unloads: the only one alive is the one that the engine points to, *)
(* so there is always somebody who can give the model's memory back.         *)
NoSessionLeaked == live = {session} \ {Nil}

(* However many calls armed a timer, one countdown runs, that of the last    *)
(* success: Stop takes back any other that has not run out.  It cannot take  *)
(* back a callback that waits for mu already: that one still unloads the     *)
(* model right after the batch, however short the idle time was.             *)
OnlyNewestTimerArmed == armed \subseteq {idleTimer}

Quiet == \A c \in Callers : pc[c] = "out"

(* Once nobody calls any more, a model that was used with success is         *)
(* unloaded: of all the timers that the calls stopped, replaced or let run   *)
(* out, one is left to do it.                                                *)
UsedModelUnloaded ==
    <>[]Quiet => \A c \in Callers : pc[c] = "reset" ~> pipeline = Nil

(* Once nobody calls any more, the model is unloaded and stays so (the       *)
(* package comment: "After IdleTimeout of inactivity the model is            *)
(* automatically unloaded to reclaim memory").  The code breaks this: a      *)
(* call that loads the model and fails to run it arms no timer.              *)
IdleModelUnloaded == <>[]Quiet => <>[](pipeline = Nil)
=============================================================================
