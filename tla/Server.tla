------------------------------- MODULE Server -------------------------------
(***************************************************************************)
(* Server (src/src/Server.h and Server.cpp), from its Config on. The       *)
(* user's threads call start and stop; each start makes a thread that runs *)
(* proxygen's server, each stop a detached thread that ends it. What they  *)
(* share, mainThread_, has no lock.                                        *)
(*                                                                         *)
(* proxygen's HTTPServer is known from its use here: start binds and       *)
(* listens, then calls onSuccess and returns once stop was called, or      *)
(* calls onError and returns; stop is for a server that is up, and aborts  *)
(* the process (a CHECK) otherwise.                                        *)
(***************************************************************************)
EXTENDS Config

CONSTANT Calls  \* bound: the calls of start and stop that are made

VARIABLES careful,     \* the user waits for each future before the next call
          pc,          \* how far each call has got
          future,      \* the future that each call returns
          server,      \* the thread that runs server_.start, one for each start
          mainThread,  \* mainThread_: whose thread it holds
          threads,     \* options.threads of server_, 0 until there is a Server
          destroyed,   \* the Server was destroyed
          crashed      \* what made the process abort

serverVars == <<careful, pc, future, server, mainThread, threads, destroyed, crashed>>
vars == <<configVars, serverVars>>

None == "none"
StartPoints == {"checked", "created", "started"}
StopPoints == {"spawned", "found", "asked", "joined", "stopped"}
Crashes == {"CHECK", "assign", "stop", "join", "clear", "destroy", "dangling"}

ASSUME ServerAssumption == None \notin Calls

ServerTypeOK ==
  /\ ConfigTypeOK
  /\ careful \in BOOLEAN
  /\ pc \in [Calls -> {"idle"} \cup StartPoints \cup StopPoints]
  /\ future \in [Calls -> {"none", "pending", "value", "exception"}]
  /\ server \in [Calls -> {"none", "starting", "serving", "stopping", "exited", "joined"}]
  /\ mainThread \in Calls \cup {None}
  /\ threads \in 0..(SizeLimit - 1)
  /\ destroyed \in BOOLEAN
  /\ crashed \in SUBSET Crashes

Init ==
  /\ ConfigInit
  /\ careful \in BOOLEAN
  /\ pc = [c \in Calls |-> "idle"]
  /\ future = [c \in Calls |-> "none"]
  /\ server = [c \in Calls |-> "none"]
  /\ mainThread = None
  /\ threads = 0
  /\ destroyed = FALSE
  /\ crashed = {}

-----------------------------------------------------------------------------

Go(c, from, to) == pc[c] = from /\ pc' = [pc EXCEPT ![c] = to]

Crash(why) == crashed' = crashed \cup {why}

Serving == {c \in Calls : server[c] = "serving"}
Alive == {c \in Calls : server[c] \in {"starting", "serving", "stopping"}}

\* Every call has returned and its future is fulfilled. A stop returns at once.
Settled ==
  \A c \in Calls : \/ pc[c] = "idle"
                   \/ pc[c] \in {"started"} \cup StopPoints /\ future[c] # "pending"

\* A std::thread that is neither joined nor moved from must not be destroyed.
Joinable == mainThread # None /\ server[mainThread] # "joined"

\* getHTTPServerOptions: a Server can be made of a Config that exists.
MakeServer ==
  /\ config = "built"
  /\ threads = 0
  /\ threads' = settings.workerThreads
  /\ UNCHANGED <<configVars, careful, pc, future, server, mainThread, destroyed, crashed>>

\* A user may call: any time, or when no future is open.
MayCall ==
  /\ threads # 0
  /\ ~destroyed
  /\ careful => Settled

-----------------------------------------------------------------------------
(* start *)

\* CHECK(!mainThread_), then bind. The careful user does not start a server
\* that is up.
Start(c) ==
  /\ MayCall
  /\ careful => Serving = {}
  /\ pc[c] = "idle"
  /\ IF mainThread # None
     THEN Crash("CHECK") /\ UNCHANGED <<pc, future>>
     ELSE /\ Go(c, "idle", "checked")
          /\ future' = [future EXCEPT ![c] = "pending"]
          /\ UNCHANGED crashed
  /\ UNCHANGED <<configVars, careful, server, mainThread, threads, destroyed>>

\* The thread object is made, and its thread runs from here on.
CreateThread(c) ==
  /\ Go(c, "checked", "created")
  /\ server' = [server EXCEPT ![c] = "starting"]
  /\ UNCHANGED <<configVars, careful, future, mainThread, threads, destroyed, crashed>>

\* mainThread_ is assigned: over a thread that can be joined, std::terminate.
AssignThread(c) ==
  /\ Go(c, "created", "started")
  /\ \/ Joinable /\ Crash("assign") /\ UNCHANGED mainThread
     \/ ~Joinable /\ mainThread' = c /\ UNCHANGED crashed
  /\ UNCHANGED <<configVars, careful, future, server, threads, destroyed>>

\* server_.start listens and calls onSuccess. Two cannot have the addresses.
Serve(c) ==
  /\ server[c] = "starting"
  /\ Serving = {}
  /\ server' = [server EXCEPT ![c] = "serving"]
  /\ future' = [future EXCEPT ![c] = "value"]
  /\ UNCHANGED <<configVars, careful, pc, mainThread, threads, destroyed, crashed>>

\* server_.start cannot listen, calls onError and returns.
ServeFails(c) ==
  /\ server[c] = "starting"
  /\ server' = [server EXCEPT ![c] = "exited"]
  /\ future' = [future EXCEPT ![c] = "exception"]
  /\ UNCHANGED <<configVars, careful, pc, mainThread, threads, destroyed, crashed>>

\* server_.start returns after server_.stop.
ServerReturns(c) ==
  /\ server[c] = "stopping"
  /\ server' = [server EXCEPT ![c] = "exited"]
  /\ UNCHANGED <<configVars, careful, pc, future, mainThread, threads, destroyed, crashed>>

-----------------------------------------------------------------------------
(* stop *)

\* The detached thread is on its way.
Stop(c) ==
  /\ MayCall
  /\ Go(c, "idle", "spawned")
  /\ future' = [future EXCEPT ![c] = "pending"]
  /\ UNCHANGED <<configVars, careful, server, mainThread, threads, destroyed, crashed>>

\* Mutant: the future is fulfilled before the server has ended.
FindThread_Early(c) ==
  /\ future' = [future EXCEPT ![c] = "value"]
  /\ Go(c, "spawned", IF mainThread = None THEN "stopped" ELSE "found")
  /\ UNCHANGED <<configVars, careful, server, mainThread, threads, destroyed, crashed>>

\* Mutant: with nothing to stop, the promise is forgotten.
FindThread_Forget(c) ==
  /\ Go(c, "spawned", IF mainThread = None THEN "stopped" ELSE "found")
  /\ UNCHANGED <<configVars, careful, future, server, mainThread, threads, destroyed, crashed>>

\* if (!mainThread_): nothing to stop.
FindThread(c) ==
  /\ \/ /\ mainThread = None
        /\ Go(c, "spawned", "stopped")
        /\ future' = [future EXCEPT ![c] = "value"]
     \/ /\ mainThread # None
        /\ Go(c, "spawned", "found")
        /\ UNCHANGED future
  /\ UNCHANGED <<configVars, careful, server, mainThread, threads, destroyed, crashed>>

\* server_.stop() ends the server that is up, whichever thread runs it.
StopServer(c) ==
  /\ Go(c, "found", "asked")
  /\ IF Serving = {}
     THEN Crash("stop") /\ UNCHANGED server
     ELSE /\ server' = [k \in Calls |-> IF k \in Serving THEN "stopping" ELSE server[k]]
          /\ UNCHANGED crashed
  /\ UNCHANGED <<configVars, careful, future, mainThread, threads, destroyed>>

\* Mutant: the promise is kept before mainThread_ is cleared.
Join_Early(c) ==
  /\ Go(c, "asked", "joined")
  /\ Joinable
  /\ server[mainThread] = "exited"
  /\ server' = [server EXCEPT ![mainThread] = "joined"]
  /\ future' = [future EXCEPT ![c] = "value"]
  /\ UNCHANGED <<configVars, careful, mainThread, threads, destroyed, crashed>>

\* mainThread_->join() waits for the thread; with none, or one that was joined
\* before, it throws in a thread that catches nothing.
Join(c) ==
  /\ Go(c, "asked", "joined")
  /\ \/ ~Joinable /\ Crash("join") /\ UNCHANGED server
     \/ /\ Joinable
        /\ server[mainThread] = "exited"
        /\ server' = [server EXCEPT ![mainThread] = "joined"]
        /\ UNCHANGED crashed
  /\ UNCHANGED <<configVars, careful, future, mainThread, threads, destroyed>>

\* Mutant: the thread that was joined is kept.
Clear_Keep(c) ==
  /\ Go(c, "joined", "stopped")
  /\ future' = [future EXCEPT ![c] = "value"]
  /\ UNCHANGED <<configVars, careful, server, mainThread, threads, destroyed, crashed>>

\* mainThread_.clear(), then the promise.
Clear(c) ==
  /\ Go(c, "joined", "stopped")
  /\ \/ Joinable /\ Crash("clear") /\ UNCHANGED <<mainThread, future>>
     \/ /\ ~Joinable
        /\ mainThread' = None
        /\ future' = [future EXCEPT ![c] = "value"]
        /\ UNCHANGED crashed
  /\ UNCHANGED <<configVars, careful, server, threads, destroyed>>

-----------------------------------------------------------------------------

\* The Server goes, and mainThread_ with it: std::terminate for a thread that
\* was not joined, and a stop that is still at work is left without its Server.
\* The careful user waits, and does so once the server is down.
Destroy ==
  /\ MayCall
  /\ careful => Serving = {}
  /\ destroyed' = TRUE
  /\ crashed' = crashed
       \cup (IF Joinable THEN {"destroy"} ELSE {})
       \cup (IF \A c \in Calls : pc[c] \in {"idle", "started", "stopped"}
             THEN {} ELSE {"dangling"})
  /\ UNCHANGED <<configVars, careful, pc, future, server, mainThread, threads>>

Starting(c) == Start(c) \/ CreateThread(c) \/ AssignThread(c)
ServerThread(c) == Serve(c) \/ ServeFails(c) \/ ServerReturns(c)
Stopping(c) == FindThread(c) \/ StopServer(c) \/ Join(c) \/ Clear(c)

\* Nothing happens in a process that was aborted.
Next ==
  /\ crashed = {}
  /\ \/ Construct /\ UNCHANGED serverVars
     \/ MakeServer
     \/ \E c \in Calls : Starting(c) \/ ServerThread(c) \/ Stop(c) \/ Stopping(c)
     \/ Destroy

Spec == Init /\ [][Next]_vars

\* Threads that were started go on. The user need not call anything.
FairSpec ==
  /\ Spec
  /\ \A c \in Calls :
       /\ WF_vars(crashed = {} /\ CreateThread(c))
       /\ WF_vars(crashed = {} /\ AssignThread(c))
       /\ WF_vars(crashed = {} /\ ServerThread(c))
       /\ WF_vars(crashed = {} /\ Stopping(c))

-----------------------------------------------------------------------------
(* Properties *)

\* For a user who waits, a fulfilled stop means that no thread of the server is
\* left, and a fulfilled start that it listens, until it is asked to stop
\* (src/README.md:56-57; Server.cpp:40-58 and 60-77).
FuturesTell ==
  careful /\ Settled => \A c \in Alive : c = mainThread /\ server[c] = "serving"

\* A user who waits crashes the process only after a start that failed: then
\* mainThread_ holds a thread that has ended, which start, stop and the
\* destructor all object to (Server.cpp:41, 70 and Server.h:17).
CrashOnlyAfterFailure ==
  careful /\ crashed # {} => \E c \in Calls : future[c] = "exception" /\ mainThread = c

\* What a call does next with mainThread_.
Reads(c) == pc[c] \in {"spawned", "asked"}
Writes(c) == pc[c] \in {"created", "joined"}

\* For a user who waits, no two threads get at mainThread_ at a time, although
\* it has no lock (Server.cpp:41, 45, 65, 71-72).
NoRaceForMainThread ==
  careful => \A c, d \in Calls : Writes(c) /\ (Reads(d) \/ Writes(d)) => c = d

\* Whoever calls when, a future is fulfilled in the end or the process aborts:
\* no stop waits for ever (Server.cpp:40-77).
FuturesFulfilled ==
  \A c \in Calls : future[c] = "pending" ~> (future[c] # "pending" \/ crashed # {})
=============================================================================
