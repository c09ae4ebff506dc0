---------------------------- MODULE ServerProofs ----------------------------
(***************************************************************************)
(* Theorems about Config and Server, for any arguments, any width of       *)
(* size_t and any number of calls of start and stop.                       *)
(***************************************************************************)
EXTENDS Server, TLAPS

\* A conversion to size_t gives a number of its range.
LEMMA AsSizeRange ==
  ASSUME NEW n \in Int
  PROVE  AsSize(n) \in 0..(SizeLimit - 1)
BY ConfigAssumption DEF AsSize

-----------------------------------------------------------------------------
(* Config. The setters that have run have left usable settings, and those    *)
(* still to come are the only ones that can object.                          *)

AddressesSet == settings.addresses = args.addresses /\ args.addresses # <<>> /\ Resolvable

ThreadsSet ==
  /\ settings.workerThreads = AsSize(args.workerThreads)
  /\ AsSize(args.workerThreads) # 0

PublicDirSet ==
  /\ settings.publicDir = Canonical(args.publicDir)
  /\ Canonical(args.publicDir) \in {"directory", "none"}

TimeoutSet == settings.requestTimeout = args.requestTimeout /\ args.requestTimeout > 0

BufferSizeSet ==
  /\ settings.fileReaderBufferSize = AsSize(args.fileReaderBufferSize)
  /\ AsSize(args.fileReaderBufferSize) \in 1..MaxBufferSize

SettersInv ==
  /\ config \in {"setHTTPAddresses", "setWorkerThreads", "setPublicDir", "setRequestTimeout",
                 "setFileReaderBufferSize", "built"} => Resolvable
  /\ config \in {"setWorkerThreads", "setPublicDir", "setRequestTimeout",
                 "setFileReaderBufferSize", "built"} => AddressesSet
  /\ config \in {"setPublicDir", "setRequestTimeout",
                 "setFileReaderBufferSize", "built"} => ThreadsSet
  /\ config \in {"setRequestTimeout", "setFileReaderBufferSize", "built"} => PublicDirSet
  /\ config \in {"setFileReaderBufferSize", "built"} => TimeoutSet
  /\ config = "built" => BufferSizeSet
  /\ config = "thrown" => ~Acceptable

\* What the types of the arguments say of each of them.
LEMMA ArgumentTypes ==
  ASSUME ConfigTypeOK
  PROVE  /\ args.addresses \in Addresses
         /\ args.workerThreads \in Int
         /\ args.publicDir \in PathNames \cup {"none"}
         /\ args.requestTimeout \in Timeouts /\ args.requestTimeout \in Int
         /\ args.fileReaderBufferSize \in Int
         /\ DOMAIN args = {"addresses", "workerThreads", "publicDir", "requestTimeout",
                           "fileReaderBufferSize"}
BY ConfigAssumption DEF ConfigTypeOK, Arguments

\* Acceptable, argument by argument.
LEMMA AcceptableMeans ==
  ASSUME ConfigTypeOK
  PROVE  Acceptable <=> /\ args.addresses # <<>> /\ Resolvable
                        /\ AsSize(args.workerThreads) # 0
                        /\ Canonical(args.publicDir) \in {"directory", "none"}
                        /\ args.requestTimeout > 0
                        /\ AsSize(args.fileReaderBufferSize) \in 1..MaxBufferSize
<1> DEFINE s == [args EXCEPT !.workerThreads = AsSize(@), !.fileReaderBufferSize = AsSize(@),
                             !.publicDir = Canonical(@)]
<1>1. /\ s.addresses = args.addresses
      /\ s.workerThreads = AsSize(args.workerThreads)
      /\ s.publicDir = Canonical(args.publicDir)
      /\ s.requestTimeout = args.requestTimeout
      /\ s.fileReaderBufferSize = AsSize(args.fileReaderBufferSize)
  BY ArgumentTypes
<1>2. AsSize(args.workerThreads) \in 0..(SizeLimit - 1)
  BY ArgumentTypes, AsSizeRange
<1>3. (Canonical(args.publicDir) = "none") <=> (args.publicDir = "none")
  BY DEF Canonical
<1>4. (AsSize(args.workerThreads) # 0) <=> (AsSize(args.workerThreads) \in 1..(SizeLimit - 1))
  BY <1>2, ConfigAssumption
<1> HIDE DEF s
<1>5. Usable(s) <=> /\ args.addresses # <<>> /\ Resolvable
                    /\ AsSize(args.workerThreads) \in 1..(SizeLimit - 1)
                    /\ Canonical(args.publicDir) \in {"directory", "none"}
                    /\ args.requestTimeout > 0
                    /\ AsSize(args.fileReaderBufferSize) \in 1..MaxBufferSize
  BY <1>1, <1>3 DEF Usable, Resolvable
<1> QED
  BY <1>4, <1>5 DEF Acceptable, s

\* The setters of the constructor keep the types, ...
LEMMA ConstructTypes ==
  ASSUME ConfigTypeOK, Construct
  PROVE  ConfigTypeOK'
<1>1. args' = args /\ args \in Arguments
  BY DEF Construct, ResolveAddresses, SetHTTPAddresses, SetWorkerThreads, SetPublicDir,
         SetRequestTimeout, SetFileReaderBufferSize, Set, ConfigTypeOK
<1>2. config' \in {"setHTTPAddresses", "setWorkerThreads", "setPublicDir", "setRequestTimeout",
                   "setFileReaderBufferSize", "built", "thrown"}
  BY DEF Construct, ResolveAddresses, SetHTTPAddresses, SetWorkerThreads, SetPublicDir,
         SetRequestTimeout, SetFileReaderBufferSize, Set
<1> DEFINE S == [addresses : Addresses \cup {<<>>}, workerThreads : 0..(SizeLimit - 1),
                 publicDir : PathNames \cup {"none", "unset"},
                 requestTimeout : Timeouts \cup {0},
                 fileReaderBufferSize : 0..MaxBufferSize]
<1>3. settings \in S
  BY DEF ConfigTypeOK
<1>4. CASE ResolveAddresses
  BY <1>1, <1>2, <1>3, <1>4 DEF ResolveAddresses, ConfigTypeOK
<1>5. CASE SetHTTPAddresses
  <2>1. settings' \in S
    BY <1>3, <1>5, ArgumentTypes DEF SetHTTPAddresses, Set
  <2> QED
    BY <1>1, <1>2, <2>1 DEF ConfigTypeOK
<1>6. CASE SetWorkerThreads
  <2>1. AsSize(args.workerThreads) \in 0..(SizeLimit - 1)
    BY ArgumentTypes, AsSizeRange
  <2>2. settings' \in S
    BY <1>3, <1>6, <2>1 DEF SetWorkerThreads, Set
  <2> QED
    BY <1>1, <1>2, <2>2 DEF ConfigTypeOK
<1>7. CASE SetPublicDir
  <2>1. Canonical(args.publicDir) \in PathNames \cup {"none"}
    BY ArgumentTypes DEF Canonical, PathNames
  <2>2. settings' \in S
    BY <1>3, <1>7, <2>1 DEF SetPublicDir, Set
  <2> QED
    BY <1>1, <1>2, <2>2 DEF ConfigTypeOK
<1>8. CASE SetRequestTimeout
  <2>1. settings' \in S
    BY <1>3, <1>8, ArgumentTypes DEF SetRequestTimeout, Set
  <2> QED
    BY <1>1, <1>2, <2>1 DEF ConfigTypeOK
<1>9. CASE SetFileReaderBufferSize
  <2> DEFINE size == AsSize(args.fileReaderBufferSize)
  <2>1. size \in 0..(SizeLimit - 1)
    BY ArgumentTypes, AsSizeRange
  <2>2. \/ settings' = [settings EXCEPT !["fileReaderBufferSize"] = size] /\ size <= MaxBufferSize
        \/ settings' = settings
    BY <1>9 DEF SetFileReaderBufferSize, Set
  <2> HIDE DEF size
  <2>3. size <= MaxBufferSize => size \in 0..MaxBufferSize
    BY <2>1, ConfigAssumption
  <2>4. settings' \in S
    BY <1>3, <2>2, <2>3
  <2> QED
    BY <1>1, <1>2, <2>4 DEF ConfigTypeOK
<1> QED
  BY <1>4, <1>5, <1>6, <1>7, <1>8, <1>9 DEF Construct

\* ... and what the setters before them have found.
LEMMA ConstructSetters ==
  ASSUME ConfigTypeOK, SettersInv, Construct
  PROVE  SettersInv'
<1>1. args' = args
  BY DEF Construct, ResolveAddresses, SetHTTPAddresses, SetWorkerThreads, SetPublicDir,
         SetRequestTimeout, SetFileReaderBufferSize, Set
<1>2. /\ Resolvable' = Resolvable /\ Acceptable' = Acceptable
      /\ Canonical(args.publicDir)' = Canonical(args.publicDir)
      /\ AsSize(args.workerThreads)' = AsSize(args.workerThreads)
      /\ AsSize(args.fileReaderBufferSize)' = AsSize(args.fileReaderBufferSize)
  BY <1>1 DEF Resolvable, Acceptable, Usable, Canonical, AsSize
<1>3. DOMAIN settings = {"addresses", "workerThreads", "publicDir", "requestTimeout",
                         "fileReaderBufferSize"}
  BY DEF ConfigTypeOK
<1>4. CASE ResolveAddresses
  <2>1. config = "newHTTPAddresses" /\ config' = IF Resolvable THEN "setHTTPAddresses" ELSE "thrown"
    BY <1>4 DEF ResolveAddresses
  <2> QED
    BY <1>2, <2>1, AcceptableMeans DEF SettersInv
<1>5. CASE SetHTTPAddresses
  <2>1. /\ config = "setHTTPAddresses"
        /\ \/ /\ args.addresses # <<>> /\ config' = "setWorkerThreads"
              /\ settings'.addresses = args.addresses
           \/ args.addresses = <<>> /\ config' = "thrown"
    BY <1>3, <1>5 DEF SetHTTPAddresses, Set
  <2> QED
    BY <1>1, <1>2, <2>1, AcceptableMeans DEF SettersInv, AddressesSet
<1>6. CASE SetWorkerThreads
  <2>1. /\ config = "setWorkerThreads"
        /\ \/ /\ AsSize(args.workerThreads) # 0 /\ config' = "setPublicDir"
              /\ settings'.workerThreads = AsSize(args.workerThreads)
              /\ settings'.addresses = settings.addresses
           \/ AsSize(args.workerThreads) = 0 /\ config' = "thrown"
    BY <1>3, <1>6 DEF SetWorkerThreads, Set
  <2> QED
    BY <1>1, <1>2, <2>1, AcceptableMeans DEF SettersInv, AddressesSet, ThreadsSet
<1>7. CASE SetPublicDir
  <2>1. /\ config = "setPublicDir"
        /\ \/ /\ Canonical(args.publicDir) \in {"directory", "none"}
              /\ config' = "setRequestTimeout"
              /\ settings'.publicDir = Canonical(args.publicDir)
              /\ settings'.addresses = settings.addresses
              /\ settings'.workerThreads = settings.workerThreads
           \/ Canonical(args.publicDir) \notin {"directory", "none"} /\ config' = "thrown"
    BY <1>3, <1>7 DEF SetPublicDir, Set
  <2> QED
    BY <1>1, <1>2, <2>1, AcceptableMeans DEF SettersInv, AddressesSet, ThreadsSet, PublicDirSet
<1>8. CASE SetRequestTimeout
  <2>1. /\ config = "setRequestTimeout"
        /\ \/ /\ args.requestTimeout > 0 /\ config' = "setFileReaderBufferSize"
              /\ settings'.requestTimeout = args.requestTimeout
              /\ settings'.addresses = settings.addresses
              /\ settings'.workerThreads = settings.workerThreads
              /\ settings'.publicDir = settings.publicDir
           \/ ~(args.requestTimeout > 0) /\ config' = "thrown"
    BY <1>3, <1>8 DEF SetRequestTimeout, Set
  <2> QED
    BY <1>1, <1>2, <2>1, AcceptableMeans
       DEF SettersInv, AddressesSet, ThreadsSet, PublicDirSet, TimeoutSet
<1>9. CASE SetFileReaderBufferSize
  <2>1. AsSize(args.fileReaderBufferSize) \in 0..(SizeLimit - 1)
    BY ArgumentTypes, AsSizeRange
  <2>2. /\ config = "setFileReaderBufferSize"
        /\ \/ /\ AsSize(args.fileReaderBufferSize) # 0
              /\ AsSize(args.fileReaderBufferSize) <= MaxBufferSize
              /\ config' = "built"
              /\ settings'.fileReaderBufferSize = AsSize(args.fileReaderBufferSize)
              /\ settings'.addresses = settings.addresses
              /\ settings'.workerThreads = settings.workerThreads
              /\ settings'.publicDir = settings.publicDir
              /\ settings'.requestTimeout = settings.requestTimeout
           \/ /\ ~(AsSize(args.fileReaderBufferSize) # 0
                     /\ AsSize(args.fileReaderBufferSize) <= MaxBufferSize)
              /\ config' = "thrown"
    BY <1>3, <1>9 DEF SetFileReaderBufferSize, Set
  <2>3. (AsSize(args.fileReaderBufferSize) \in 1..MaxBufferSize)
          <=> (AsSize(args.fileReaderBufferSize) # 0 /\ AsSize(args.fileReaderBufferSize) <= MaxBufferSize)
    BY <2>1, ConfigAssumption
  <2> QED
    BY <1>1, <1>2, <2>2, <2>3, AcceptableMeans
       DEF SettersInv, AddressesSet, ThreadsSet, PublicDirSet, TimeoutSet, BufferSizeSet
<1> QED
  BY <1>4, <1>5, <1>6, <1>7, <1>8, <1>9 DEF Construct

-----------------------------------------------------------------------------
(* Types of the Server *)

\* What a step of Next may be.
LEMMA ServerSteps ==
  ASSUME Next
  PROVE  /\ crashed = {}
         /\ \/ Construct /\ UNCHANGED serverVars
            \/ UNCHANGED configVars
BY DEF Next, MakeServer, Starting, ServerThread, Stopping, Destroy, Start, CreateThread,
       AssignThread, Serve, ServeFails, ServerReturns, Stop, FindThread, StopServer, Join, Clear

\* Every variable keeps its type (Config.cpp:10-106, Server.cpp:40-77).
THEOREM ServerTypeCorrect == Spec => []ServerTypeOK
<1>1. Init => ServerTypeOK
  <2> SUFFICES ASSUME Init PROVE ServerTypeOK
    OBVIOUS
  <2>1. ConfigTypeOK
    BY ConfigAssumption DEF Init, ConfigInit, Unset, ConfigTypeOK
  <2>2. 0 \in 0..(SizeLimit - 1)
    BY ConfigAssumption
  <2>3. /\ pc \in [Calls -> {"idle"} \cup StartPoints \cup StopPoints]
        /\ future \in [Calls -> {"none", "pending", "value", "exception"}]
        /\ server \in [Calls -> {"none", "starting", "serving", "stopping", "exited", "joined"}]
    BY DEF Init
  <2>4. mainThread \in Calls \cup {None} /\ destroyed \in BOOLEAN /\ crashed \in SUBSET Crashes
    BY DEF Init
  <2>5. careful \in BOOLEAN /\ threads = 0
    BY DEF Init
  <2> QED
    BY <2>1, <2>2, <2>3, <2>4, <2>5 DEF ServerTypeOK
<1>2. ServerTypeOK /\ [Next]_vars => ServerTypeOK'
  <2> SUFFICES ASSUME ServerTypeOK, [Next]_vars PROVE ServerTypeOK'
    OBVIOUS
  <2>0. ConfigTypeOK
    BY DEF ServerTypeOK
  <2>1. CASE UNCHANGED vars
    BY <2>1 DEF vars, serverVars, configVars, ServerTypeOK, ConfigTypeOK
  <2>2. CASE Construct /\ UNCHANGED serverVars
    BY <2>0, <2>2, ConstructTypes DEF serverVars, ServerTypeOK
  <2>3. CASE MakeServer
    <3>1. ConfigTypeOK'
      BY <2>0, <2>3 DEF MakeServer, configVars, ConfigTypeOK
    <3>2. settings.workerThreads \in 0..(SizeLimit - 1)
      BY <2>0 DEF ConfigTypeOK
    <3> QED
      BY <2>3, <3>1, <3>2 DEF MakeServer, ServerTypeOK
  <2>4. ASSUME UNCHANGED <<configVars, careful, threads>>,
               pc' \in [Calls -> {"idle"} \cup StartPoints \cup StopPoints],
               future' \in [Calls -> {"none", "pending", "value", "exception"}],
               server' \in [Calls -> {"none", "starting", "serving", "stopping", "exited", "joined"}],
               mainThread' \in Calls \cup {None},
               destroyed' \in BOOLEAN, crashed' \in SUBSET Crashes
        PROVE  ServerTypeOK'
    BY <2>0, <2>4 DEF configVars, ConfigTypeOK, ServerTypeOK
  <2>5. ASSUME NEW c \in Calls, Starting(c) PROVE ServerTypeOK'
    BY <2>4, <2>5 DEF Starting, Start, CreateThread, AssignThread, Go, Crash, Crashes,
                      StartPoints, ServerTypeOK
  <2>6. ASSUME NEW c \in Calls, ServerThread(c) PROVE ServerTypeOK'
    BY <2>4, <2>6 DEF ServerThread, Serve, ServeFails, ServerReturns, ServerTypeOK
  <2>7. ASSUME NEW c \in Calls, Stop(c) PROVE ServerTypeOK'
    BY <2>4, <2>7 DEF Stop, Go, StopPoints, ServerTypeOK
  <2>8. ASSUME NEW c \in Calls, Stopping(c) PROVE ServerTypeOK'
    <3>1. CASE FindThread(c)
      BY <2>4, <2>8, <3>1 DEF FindThread, Go, StopPoints, ServerTypeOK
    <3>2. CASE StopServer(c)
      BY <2>4, <2>8, <3>2 DEF StopServer, Go, Crash, Crashes, StopPoints, ServerTypeOK
    <3>3. CASE Join(c)
      BY <2>4, <2>8, <3>3 DEF Join, Go, Crash, Crashes, StopPoints, Joinable, ServerTypeOK
    <3>4. CASE Clear(c)
      BY <2>4, <2>8, <3>4 DEF Clear, Go, Crash, Crashes, StopPoints, ServerTypeOK
    <3> QED
      BY <2>8, <3>1, <3>2, <3>3, <3>4 DEF Stopping
  <2>9. CASE Destroy
    <3>1. crashed' \in SUBSET Crashes
      BY <2>9 DEF Destroy, Crashes, ServerTypeOK
    <3> QED
      BY <2>4, <2>9, <3>1 DEF Destroy, ServerTypeOK
  <2> QED
    BY <2>1, <2>2, <2>3, <2>5, <2>6, <2>7, <2>8, <2>9 DEF Next
<1> QED
  BY <1>1, <1>2, PTL DEF Spec

LEMMA SettersInvariant == Spec => []SettersInv
<1>1. Init => SettersInv
  BY DEF Init, ConfigInit, SettersInv
<1>2. ServerTypeOK /\ SettersInv /\ [Next]_vars => SettersInv'
  <2> SUFFICES ASSUME ServerTypeOK, SettersInv, [Next]_vars PROVE SettersInv'
    OBVIOUS
  <2>1. CASE UNCHANGED configVars
    BY <2>1 DEF configVars, SettersInv, AddressesSet, ThreadsSet, PublicDirSet, TimeoutSet,
                BufferSizeSet, Resolvable, Acceptable, Usable
  <2>2. CASE Construct
    BY <2>2, ConstructSetters DEF ServerTypeOK
  <2> QED
    BY <2>1, <2>2, ServerSteps DEF vars
<1> QED
  BY <1>1, <1>2, ServerTypeCorrect, PTL DEF Spec

\* A Config that exists is usable as a whole, and one that was refused had an
\* argument to refuse: no setting is left as it was in memory, and no setter
\* undoes what another has checked (Config.cpp:66-106).
THEOREM ConfigUsable == Spec => []ConfigIsUsable
<1>1. ServerTypeOK /\ SettersInv => ConfigIsUsable
  <2> SUFFICES ASSUME ServerTypeOK, SettersInv, config = "built" PROVE Usable(settings)
    BY DEF SettersInv, ConfigIsUsable
  <2>1. AddressesSet /\ ThreadsSet /\ PublicDirSet /\ TimeoutSet /\ BufferSizeSet
    BY DEF SettersInv
  <2>2. AsSize(args.workerThreads) \in 1..(SizeLimit - 1)
    BY <2>1, ArgumentTypes, AsSizeRange, ConfigAssumption DEF ThreadsSet, ServerTypeOK
  <2>3. settings.publicDir = "none" <=> args.publicDir = "none"
    BY <2>1 DEF PublicDirSet, Canonical
  <2> QED
    BY <2>1, <2>2, <2>3 DEF Usable, AddressesSet, ThreadsSet, PublicDirSet, TimeoutSet,
                            BufferSizeSet, Resolvable
<1> QED
  BY <1>1, ServerTypeCorrect, SettersInvariant, PTL

-----------------------------------------------------------------------------
(* The user who waits. At most one call is under way, and mainThread_ holds  *)
(* the one thread that was neither joined nor is just being made.            *)

\* What has not returned or has not fulfilled its future.
Busy(c) == pc[c] \in {"checked", "created"} \/ future[c] = "pending"

OneBusy == \A c, d \in Calls : Busy(c) /\ Busy(d) => c = d

\* How far a call, its future and its thread are, each by the others.
CallInv ==
  \A c \in Calls :
    /\ pc[c] = "idle" => server[c] = "none" /\ future[c] = "none"
    /\ pc[c] = "checked" => server[c] = "none" /\ future[c] = "pending"
    /\ pc[c] \in {"created", "started"} =>
         /\ server[c] # "none"
         /\ server[c] = "starting" <=> future[c] = "pending"
         /\ server[c] \in {"serving", "stopping", "joined"} => future[c] = "value"
         /\ server[c] = "exited" => future[c] \in {"value", "exception"}
    /\ pc[c] \in StopPoints =>
         /\ server[c] = "none"
         /\ future[c] = IF pc[c] = "stopped" THEN "value" ELSE "pending"

\* A thread that ended otherwise than by a failed start is being stopped.
ThreadInv ==
  /\ mainThread # None => pc[mainThread] = "started"
  /\ \A c \in Calls : pc[c] \in {"checked", "created"} => mainThread = None
  /\ \A c \in Calls :
       pc[c] = "created" => \/ server[c] \in {"starting", "serving"}
                            \/ server[c] = "exited" /\ future[c] = "exception"
  /\ \A c \in Calls : pc[c] = "started" /\ server[c] # "joined" => mainThread = c
  /\ mainThread # None =>
       /\ server[mainThread] = "joined" => \E d \in Calls : pc[d] = "joined"
       /\ server[mainThread] = "stopping" => \E d \in Calls : pc[d] = "asked"
       /\ server[mainThread] = "exited" /\ future[mainThread] = "value" =>
            \E d \in Calls : pc[d] = "asked"
  /\ \A c \in Calls :
       /\ pc[c] = "found" => mainThread # None
       /\ pc[c] = "asked" => /\ mainThread # None
                              /\ server[mainThread] \in {"stopping", "exited"}
                              /\ future[mainThread] = "value"
       /\ pc[c] = "joined" => mainThread # None /\ server[mainThread] = "joined"

CarefulInv ==
  careful => /\ OneBusy /\ CallInv
             /\ crashed = {} => ThreadInv
             /\ crashed # {} => CrashOnlyAfterFailure /\ FuturesTell

\* The process is up, and its user waits.
Waiting == ServerTypeOK /\ careful /\ crashed = {} /\ OneBusy /\ CallInv /\ ThreadInv

\* When every future is fulfilled, a thread that is held serves or is one that
\* failed, and no call is at work.
LEMMA WhenSettled ==
  ASSUME Waiting, Settled
  PROVE  /\ \A c \in Calls : pc[c] \in {"idle", "started", "stopped"} /\ ~Busy(c)
         /\ mainThread # None =>
              \/ server[mainThread] = "serving"
              \/ server[mainThread] = "exited" /\ future[mainThread] = "exception"
         /\ \A c \in Alive : c = mainThread /\ server[c] = "serving"
<1>1. ASSUME NEW c \in Calls PROVE pc[c] \in {"idle", "started", "stopped"} /\ ~Busy(c)
  BY DEF Waiting, Settled, Busy, CallInv, ServerTypeOK, StartPoints, StopPoints
<1>2. ASSUME mainThread # None
      PROVE  \/ server[mainThread] = "serving"
             \/ server[mainThread] = "exited" /\ future[mainThread] = "exception"
  <2>1. mainThread \in Calls /\ pc[mainThread] = "started" /\ ~Busy(mainThread)
    BY <1>1, <1>2 DEF Waiting, ThreadInv, ServerTypeOK
  <2>2. server[mainThread] \in {"serving", "stopping", "exited", "joined"}
    BY <2>1 DEF Waiting, CallInv, ServerTypeOK, Busy
  <2>3. ~\E d \in Calls : pc[d] \in {"asked", "joined"}
    BY <1>1
  <2> QED
    BY <1>2, <2>1, <2>2, <2>3 DEF Waiting, ThreadInv, CallInv
<1>3. ASSUME NEW c \in Alive PROVE c = mainThread /\ server[c] = "serving"
  <2>1. c \in Calls /\ server[c] \in {"starting", "serving", "stopping"}
    BY DEF Alive
  <2>2. pc[c] = "started"
    BY <1>1, <2>1 DEF Waiting, CallInv, StopPoints
  <2>3. c = mainThread /\ c # None
    BY <2>1, <2>2, ServerAssumption DEF Waiting, ThreadInv
  <2> QED
    BY <1>2, <2>1, <2>3
<1> QED
  BY <1>1, <1>2, <1>3

\* What is to be shown of a step of a user who waits.
StaysCareful ==
  /\ OneBusy' /\ CallInv'
  /\ crashed' = {} => ThreadInv'
  /\ crashed' # {} => CrashOnlyAfterFailure' /\ FuturesTell'

LEMMA StartCareful ==
  ASSUME Waiting, NEW c \in Calls, Start(c)
  PROVE  StaysCareful
<1>1. Settled /\ Serving = {} /\ pc[c] = "idle" /\ UNCHANGED <<server, mainThread, careful>>
  BY DEF Start, MayCall, Waiting
<1>2. /\ \A d \in Calls : pc[d] \in {"idle", "started", "stopped"} /\ ~Busy(d)
      /\ mainThread # None =>
           \/ server[mainThread] = "serving"
           \/ server[mainThread] = "exited" /\ future[mainThread] = "exception"
      /\ FuturesTell
  BY <1>1, WhenSettled DEF FuturesTell
<1>3. CASE mainThread # None
  <2>1. UNCHANGED <<pc, future>> /\ mainThread \in Calls
    BY <1>3 DEF Start, Waiting, ServerTypeOK
  <2>2. server[mainThread] # "serving"
    BY <1>1, <2>1 DEF Serving
  <2>3. crashed' # {}
    BY <1>3 DEF Start, Crash
  <2>4. OneBusy' /\ CallInv'
    BY <1>1, <2>1 DEF Waiting, OneBusy, Busy, CallInv
  <2>5. CrashOnlyAfterFailure'
    BY <1>1, <1>2, <1>3, <2>1, <2>2 DEF CrashOnlyAfterFailure
  <2>6. FuturesTell'
    BY <1>1, <1>2, <2>1 DEF FuturesTell, Settled, Alive
  <2> QED
    BY <2>3, <2>4, <2>5, <2>6 DEF StaysCareful
<1>4. CASE mainThread = None
  <2>1. /\ crashed' = {}
        /\ \A d \in Calls : pc'[d] = IF d = c THEN "checked" ELSE pc[d]
        /\ \A d \in Calls : future'[d] = IF d = c THEN "pending" ELSE future[d]
    BY <1>4 DEF Start, Go, Waiting, ServerTypeOK
  <2>2. OneBusy'
    BY <1>2, <2>1 DEF OneBusy, Busy
  <2>3. CallInv'
    BY <1>1, <2>1 DEF Waiting, CallInv, StopPoints
  <2>4. ThreadInv'
    BY <1>1, <1>2, <1>4, <2>1 DEF Waiting, ThreadInv
  <2> QED
    BY <2>1, <2>2, <2>3, <2>4 DEF StaysCareful
<1> QED
  BY <1>3, <1>4

LEMMA CreateThreadCareful ==
  ASSUME Waiting, NEW c \in Calls, CreateThread(c)
  PROVE  StaysCareful
<1>1. /\ pc[c] = "checked" /\ UNCHANGED <<future, mainThread, crashed>>
      /\ \A d \in Calls : pc'[d] = IF d = c THEN "created" ELSE pc[d]
      /\ \A d \in Calls : server'[d] = IF d = c THEN "starting" ELSE server[d]
  BY DEF CreateThread, Go, Waiting, ServerTypeOK
<1>2. OneBusy'
  BY <1>1 DEF Waiting, OneBusy, Busy
<1>3. CallInv'
  BY <1>1 DEF Waiting, CallInv, StopPoints
<1>4. ThreadInv'
  BY <1>1 DEF Waiting, ThreadInv
<1> QED
  BY <1>1, <1>2, <1>3, <1>4 DEF Waiting, StaysCareful

LEMMA AssignThreadCareful ==
  ASSUME Waiting, NEW c \in Calls, AssignThread(c)
  PROVE  StaysCareful
<1>1. pc[c] = "created" /\ mainThread = None /\ c # None
  BY ServerAssumption DEF AssignThread, Go, Waiting, ThreadInv
<1>2. /\ UNCHANGED <<future, server, crashed>> /\ mainThread' = c
      /\ \A d \in Calls : pc'[d] = IF d = c THEN "started" ELSE pc[d]
  BY <1>1 DEF AssignThread, Go, Joinable, Waiting, ServerTypeOK
<1>3. OneBusy'
  BY <1>1, <1>2 DEF Waiting, OneBusy, Busy
<1>4. CallInv'
  BY <1>1, <1>2 DEF Waiting, CallInv, StopPoints
<1>5. ThreadInv'
  <2>1. \A d \in Calls : d # c => pc[d] \notin {"checked", "created"}
    BY <1>1 DEF Waiting, OneBusy, Busy
  <2>2. \/ server[c] \in {"starting", "serving"}
        \/ server[c] = "exited" /\ future[c] = "exception"
    BY <1>1 DEF Waiting, ThreadInv
  <2>3. \A d \in Calls : pc[d] \notin {"found", "asked", "joined"}
    BY <1>1 DEF Waiting, ThreadInv
  <2>4. \A d \in Calls : pc[d] = "started" => server[d] = "joined"
    BY <1>1, ServerAssumption DEF Waiting, ThreadInv
  <2> QED
    BY <1>1, <1>2, <2>1, <2>2, <2>3, <2>4 DEF ThreadInv
<1> QED
  BY <1>2, <1>3, <1>4, <1>5 DEF Waiting, StaysCareful

\* A server that is up, or has not come up, was started by a call that is its
\* thread's: nothing else is under way while it starts.
LEMMA ServerThreadCareful ==
  ASSUME Waiting, NEW c \in Calls, ServerThread(c)
  PROVE  StaysCareful
<1>1. CASE ServerReturns(c)
  <2>1. /\ server[c] = "stopping" /\ UNCHANGED <<pc, future, mainThread, crashed>>
        /\ \A d \in Calls : server'[d] = IF d = c THEN "exited" ELSE server[d]
    BY <1>1 DEF ServerReturns, Waiting, ServerTypeOK
  <2>2. OneBusy'
    BY <2>1 DEF Waiting, OneBusy, Busy
  <2>3. CallInv'
    BY <2>1 DEF Waiting, CallInv
  <2>4. mainThread = c
    <3>1. pc[c] = "started"
      BY <2>1 DEF Waiting, CallInv, ThreadInv, ServerTypeOK, StartPoints
    <3> QED
      BY <2>1, <3>1 DEF Waiting, ThreadInv
  <2>5. ThreadInv'
    BY <2>1, <2>4 DEF Waiting, ThreadInv
  <2> QED
    BY <2>1, <2>2, <2>3, <2>5 DEF Waiting, StaysCareful
<1>2. ASSUME NEW up, NEW told, server[c] = "starting",
             UNCHANGED <<pc, mainThread, crashed>>,
             \/ up = "serving" /\ told = "value"
             \/ up = "exited" /\ told = "exception",
             \A d \in Calls : server'[d] = IF d = c THEN up ELSE server[d],
             \A d \in Calls : future'[d] = IF d = c THEN told ELSE future[d]
      PROVE  StaysCareful
  <2>1. pc[c] \in {"created", "started"} /\ future[c] = "pending" /\ Busy(c)
    BY <1>2 DEF Waiting, CallInv, ServerTypeOK, StartPoints, Busy
  <2>2. OneBusy'
    BY <1>2, <2>1 DEF Waiting, OneBusy, Busy
  <2>3. CallInv'
    BY <1>2, <2>1 DEF Waiting, CallInv, StopPoints
  <2>4. \A d \in Calls : pc[d] \notin {"spawned", "found", "asked", "joined"}
    BY <2>1 DEF Waiting, OneBusy, Busy, CallInv, StopPoints
  <2>5. ThreadInv'
    BY <1>2, <2>1, <2>4 DEF Waiting, ThreadInv
  <2> QED
    BY <1>2, <2>2, <2>3, <2>5 DEF Waiting, StaysCareful
<1>3. CASE Serve(c)
  <2>1. /\ server[c] = "starting" /\ UNCHANGED <<pc, mainThread, crashed>>
        /\ \A d \in Calls : server'[d] = IF d = c THEN "serving" ELSE server[d]
        /\ \A d \in Calls : future'[d] = IF d = c THEN "value" ELSE future[d]
    BY <1>3 DEF Serve, Waiting, ServerTypeOK
  <2> QED
    BY <1>2, <2>1
<1>4. CASE ServeFails(c)
  <2>1. /\ server[c] = "starting" /\ UNCHANGED <<pc, mainThread, crashed>>
        /\ \A d \in Calls : server'[d] = IF d = c THEN "exited" ELSE server[d]
        /\ \A d \in Calls : future'[d] = IF d = c THEN "exception" ELSE future[d]
    BY <1>4 DEF ServeFails, Waiting, ServerTypeOK
  <2> QED
    BY <1>2, <2>1
<1> QED
  BY <1>1, <1>3, <1>4 DEF ServerThread

LEMMA StopCareful ==
  ASSUME Waiting, NEW c \in Calls, Stop(c)
  PROVE  StaysCareful
<1>1. /\ Settled /\ pc[c] = "idle" /\ UNCHANGED <<server, mainThread, crashed>>
      /\ \A d \in Calls : pc'[d] = IF d = c THEN "spawned" ELSE pc[d]
      /\ \A d \in Calls : future'[d] = IF d = c THEN "pending" ELSE future[d]
  BY DEF Stop, MayCall, Go, Waiting, ServerTypeOK
<1>2. \A d \in Calls : pc[d] \in {"idle", "started", "stopped"} /\ ~Busy(d)
  BY <1>1, WhenSettled
<1>3. OneBusy'
  BY <1>1, <1>2 DEF OneBusy, Busy
<1>4. CallInv'
  BY <1>1 DEF Waiting, CallInv, StopPoints
<1>5. ThreadInv'
  <2>1. mainThread # None => mainThread \in Calls /\ mainThread # c
    BY <1>1 DEF Waiting, ThreadInv, ServerTypeOK
  <2> QED
    BY <1>1, <1>2, <2>1 DEF Waiting, ThreadInv
<1> QED
  BY <1>1, <1>3, <1>4, <1>5 DEF Waiting, StaysCareful

\* While a stop is at work there is no other call at work.
LEMMA OnlyStop ==
  ASSUME Waiting, NEW c \in Calls, pc[c] \in {"spawned", "found", "asked", "joined"}
  PROVE  /\ Busy(c) /\ future[c] = "pending" /\ server[c] = "none"
         /\ \A d \in Calls \ {c} : pc[d] \in {"idle", "started", "stopped"} /\ ~Busy(d)
         /\ \A d \in Calls : server[d] # "starting"
<1>1. Busy(c) /\ future[c] = "pending" /\ server[c] = "none"
  BY DEF Waiting, CallInv, StopPoints, Busy
<1>2. ASSUME NEW d \in Calls \ {c} PROVE pc[d] \in {"idle", "started", "stopped"} /\ ~Busy(d)
  BY <1>1 DEF Waiting, OneBusy, Busy, CallInv, ServerTypeOK, StartPoints, StopPoints
<1>3. ASSUME NEW d \in Calls PROVE server[d] # "starting"
  BY <1>1, <1>2 DEF Waiting, CallInv, Busy, StopPoints
<1> QED
  BY <1>1, <1>2, <1>3

LEMMA FindThreadCareful ==
  ASSUME Waiting, NEW c \in Calls, FindThread(c)
  PROVE  StaysCareful
<1>1. /\ pc[c] = "spawned" /\ UNCHANGED <<server, mainThread, crashed>>
      /\ \A d \in Calls : d # c => pc'[d] = pc[d] /\ future'[d] = future[d]
      /\ \/ mainThread = None /\ pc'[c] = "stopped" /\ future'[c] = "value"
         \/ mainThread # None /\ pc'[c] = "found" /\ future'[c] = future[c]
  BY DEF FindThread, Go, Waiting, ServerTypeOK
<1>2. OneBusy'
  BY <1>1, OnlyStop DEF OneBusy, Busy
<1>3. CallInv'
  BY <1>1, OnlyStop DEF Waiting, CallInv, StopPoints
<1>4. ThreadInv'
  <2>1. mainThread # c
    BY <1>1, ServerAssumption DEF Waiting, ThreadInv
  <2> QED
    BY <1>1, <2>1, OnlyStop DEF Waiting, ThreadInv, ServerTypeOK
<1> QED
  BY <1>1, <1>2, <1>3, <1>4 DEF Waiting, StaysCareful

LEMMA StopServerCareful ==
  ASSUME Waiting, NEW c \in Calls, StopServer(c)
  PROVE  StaysCareful
<1>1. /\ pc[c] = "found" /\ UNCHANGED <<future, mainThread>>
      /\ \A d \in Calls : pc'[d] = IF d = c THEN "asked" ELSE pc[d]
  BY DEF StopServer, Go, Waiting, ServerTypeOK
<1>2. mainThread \in Calls /\ pc[mainThread] = "started" /\ mainThread # c
  BY <1>1 DEF Waiting, ThreadInv, ServerTypeOK
<1>3. \A d \in Serving : d = mainThread
  BY <1>1, OnlyStop DEF Serving, Waiting, ThreadInv, CallInv, ServerTypeOK, StopPoints
<1>4. OneBusy'
  BY <1>1, OnlyStop DEF OneBusy, Busy
<1>5. CASE Serving = {}
  <2>1. UNCHANGED server /\ crashed' # {}
    BY <1>5 DEF StopServer, Crash
  <2>2. CallInv'
    BY <1>1, <2>1 DEF Waiting, CallInv, StopPoints
  <2>3. CrashOnlyAfterFailure'
    <3>1. server[mainThread] \notin {"none", "starting", "serving"}
      BY <1>1, <1>2, <1>5, OnlyStop DEF Serving, Waiting, CallInv
    <3>2. ~\E d \in Calls : pc[d] \in {"asked", "joined"}
      BY <1>1, OnlyStop
    <3>3. server[mainThread] = "exited" /\ future[mainThread] = "exception"
      BY <1>2, <3>1, <3>2, ServerAssumption DEF Waiting, ThreadInv, CallInv, ServerTypeOK
    <3> QED
      BY <1>1, <1>2, <3>3 DEF CrashOnlyAfterFailure
  <2>4. FuturesTell'
    <3>1. ~Settled'
      BY <1>1, OnlyStop DEF Settled
    <3> QED
      BY <3>1 DEF FuturesTell
  <2> QED
    BY <1>4, <2>1, <2>2, <2>3, <2>4 DEF StaysCareful
<1>6. CASE Serving # {}
  <2>1. server[mainThread] = "serving"
    BY <1>3, <1>6 DEF Serving
  <2>2. /\ \A d \in Calls : server'[d] = IF d = mainThread THEN "stopping" ELSE server[d]
        /\ UNCHANGED crashed
    BY <1>3, <1>6, <2>1 DEF StopServer, Serving
  <2>3. CallInv'
    BY <1>1, <1>2, <2>1, <2>2 DEF Waiting, CallInv, StopPoints
  <2>4. ThreadInv'
    <3>1. \A d \in Calls : pc[d] \notin {"checked", "created", "asked", "joined"}
      BY <1>1, OnlyStop
    <3>2. future[mainThread] = "value"
      BY <1>2, <2>1 DEF Waiting, CallInv
    <3> QED
      BY <1>1, <1>2, <2>1, <2>2, <3>1, <3>2 DEF Waiting, ThreadInv
  <2> QED
    BY <1>4, <2>2, <2>3, <2>4 DEF Waiting, StaysCareful
<1> QED
  BY <1>5, <1>6

LEMMA JoinCareful ==
  ASSUME Waiting, NEW c \in Calls, Join(c)
  PROVE  StaysCareful
<1>1. /\ pc[c] = "asked" /\ UNCHANGED <<future, mainThread>>
      /\ \A d \in Calls : pc'[d] = IF d = c THEN "joined" ELSE pc[d]
  BY DEF Join, Go, Waiting, ServerTypeOK
<1>2. /\ mainThread \in Calls /\ pc[mainThread] = "started" /\ mainThread # c /\ mainThread # None
      /\ server[mainThread] \in {"stopping", "exited"}
  BY <1>1 DEF Waiting, ThreadInv, ServerTypeOK
<1>3. /\ server[mainThread] = "exited" /\ UNCHANGED crashed
      /\ \A d \in Calls : server'[d] = IF d = mainThread THEN "joined" ELSE server[d]
  BY <1>2 DEF Join, Joinable, Waiting, ServerTypeOK
<1>4. OneBusy'
  BY <1>1, OnlyStop DEF OneBusy, Busy
<1>5. CallInv'
  <2>1. future[mainThread] = "value"
    BY <1>1 DEF Waiting, ThreadInv
  <2> QED
    BY <1>1, <1>2, <1>3, <2>1 DEF Waiting, CallInv, StopPoints
<1>6. ThreadInv'
  BY <1>1, <1>2, <1>3, OnlyStop DEF Waiting, ThreadInv
<1> QED
  BY <1>3, <1>4, <1>5, <1>6 DEF Waiting, StaysCareful

LEMMA ClearCareful ==
  ASSUME Waiting, NEW c \in Calls, Clear(c)
  PROVE  StaysCareful
<1>1. /\ pc[c] = "joined" /\ UNCHANGED server
      /\ \A d \in Calls : pc'[d] = IF d = c THEN "stopped" ELSE pc[d]
  BY DEF Clear, Go, Waiting, ServerTypeOK
<1>2. /\ mainThread \in Calls /\ server[mainThread] = "joined"
  BY <1>1 DEF Waiting, ThreadInv, ServerTypeOK
<1>3. /\ mainThread' = None /\ UNCHANGED crashed
      /\ \A d \in Calls : future'[d] = IF d = c THEN "value" ELSE future[d]
  BY <1>2 DEF Clear, Joinable, Waiting, ServerTypeOK
<1>4. OneBusy'
  BY <1>1, <1>3, OnlyStop DEF OneBusy, Busy
<1>5. CallInv'
  BY <1>1, <1>3, OnlyStop DEF Waiting, CallInv, StopPoints
<1>6. ThreadInv'
  BY <1>1, <1>2, <1>3, OnlyStop DEF Waiting, ThreadInv
<1> QED
  BY <1>3, <1>4, <1>5, <1>6 DEF Waiting, StaysCareful

LEMMA DestroyCareful ==
  ASSUME Waiting, Destroy
  PROVE  StaysCareful
<1>1. Settled /\ Serving = {} /\ UNCHANGED <<pc, future, server, mainThread, careful>>
  BY DEF Destroy, MayCall, Waiting
<1>2. /\ \A d \in Calls : pc[d] \in {"idle", "started", "stopped"}
      /\ mainThread # None =>
           \/ server[mainThread] = "serving"
           \/ server[mainThread] = "exited" /\ future[mainThread] = "exception"
      /\ FuturesTell
  BY <1>1, WhenSettled DEF FuturesTell
<1>3. OneBusy' /\ CallInv' /\ ThreadInv'
  BY <1>1 DEF Waiting, OneBusy, Busy, CallInv, ThreadInv
<1>4. FuturesTell'
  BY <1>1, <1>2 DEF FuturesTell, Settled, Alive
<1>5. crashed' # {} => CrashOnlyAfterFailure'
  <2> SUFFICES ASSUME crashed' # {} PROVE CrashOnlyAfterFailure'
    OBVIOUS
  <2>1. Joinable
    BY <1>2 DEF Destroy, Waiting
  <2>2. mainThread \in Calls /\ server[mainThread] # "serving"
    BY <1>1, <2>1 DEF Joinable, Serving, Waiting, ServerTypeOK
  <2> QED
    BY <1>1, <1>2, <2>1, <2>2 DEF CrashOnlyAfterFailure, Joinable
<1> QED
  BY <1>3, <1>4, <1>5 DEF StaysCareful

LEMMA CarefulInvariant == Spec => []CarefulInv
<1>1. Init => CarefulInv
  BY ServerAssumption
     DEF Init, CarefulInv, OneBusy, Busy, CallInv, ThreadInv, StopPoints
<1>2. ServerTypeOK /\ CarefulInv /\ [Next]_vars => CarefulInv'
  <2> SUFFICES ASSUME ServerTypeOK, CarefulInv, [Next]_vars PROVE CarefulInv'
    OBVIOUS
  <2>1. CASE UNCHANGED serverVars
    BY <2>1 DEF serverVars, CarefulInv, OneBusy, Busy, CallInv, ThreadInv,
                CrashOnlyAfterFailure, FuturesTell, Settled, Alive
  <2>2. CASE MakeServer
    BY <2>2 DEF MakeServer, CarefulInv, OneBusy, Busy, CallInv, ThreadInv,
                CrashOnlyAfterFailure, FuturesTell, Settled, Alive
  <2>3. ASSUME StaysCareful PROVE CarefulInv'
    BY <2>3 DEF StaysCareful, CarefulInv
  <2>4. ASSUME NEW c \in Calls, Starting(c) \/ ServerThread(c) \/ Stop(c) \/ Stopping(c),
               crashed = {}
        PROVE  CarefulInv'
    <3>1. careful' = careful
      BY <2>4 DEF Starting, ServerThread, Stopping, Start, CreateThread, AssignThread, Serve,
                  ServeFails, ServerReturns, Stop, FindThread, StopServer, Join, Clear
    <3>2. CASE careful
      <4>1. Waiting
        BY <2>4, <3>2 DEF Waiting, CarefulInv
      <4> QED
        BY <2>3, <2>4, <4>1, StartCareful, CreateThreadCareful, AssignThreadCareful,
           ServerThreadCareful, StopCareful, FindThreadCareful, StopServerCareful,
           JoinCareful, ClearCareful DEF Starting, Stopping
    <3> QED
      BY <3>1, <3>2 DEF CarefulInv
  <2>5. CASE Destroy /\ crashed = {}
    <3>1. careful' = careful
      BY <2>5 DEF Destroy
    <3>2. CASE careful
      <4>1. Waiting
        BY <2>5, <3>2 DEF Waiting, CarefulInv
      <4> QED
        BY <2>3, <2>5, <4>1, DestroyCareful
    <3> QED
      BY <3>1, <3>2 DEF CarefulInv
  <2> QED
    BY <2>1, <2>2, <2>4, <2>5 DEF Next, vars
<1> QED
  BY <1>1, <1>2, ServerTypeCorrect, PTL DEF Spec

\* For a user who waits for each future: a fulfilled stop means that no thread
\* of the server is left, a fulfilled start that it listens, however often the
\* server is started and stopped (Server.cpp:40-77).
THEOREM FuturesTellOfServer == Spec => []FuturesTell
<1>1. ServerTypeOK /\ CarefulInv => FuturesTell
  <2> SUFFICES ASSUME ServerTypeOK, CarefulInv, careful, Settled, crashed = {}
               PROVE  \A c \in Alive : c = mainThread /\ server[c] = "serving"
    BY DEF CarefulInv, FuturesTell
  <2>1. Waiting
    BY DEF Waiting, CarefulInv
  <2> QED
    BY <2>1, WhenSettled
<1> QED
  BY <1>1, ServerTypeCorrect, CarefulInvariant, PTL

\* Such a user crashes the process only with what a failed start has left in
\* mainThread_ (Server.cpp:41, 70 and Server.h:17).
THEOREM CrashAfterFailure == Spec => []CrashOnlyAfterFailure
<1>1. CarefulInv => CrashOnlyAfterFailure
  BY DEF CarefulInv, CrashOnlyAfterFailure
<1> QED
  BY <1>1, CarefulInvariant, PTL

\* And for such a user no two threads get at mainThread_ at a time: it needs
\* no lock (Server.cpp:41, 45, 65, 71-72).
THEOREM MainThreadNeedsNoLock == Spec => []NoRaceForMainThread
<1>1. CarefulInv => NoRaceForMainThread
  <2> SUFFICES ASSUME CarefulInv, careful,
                      NEW c \in Calls, NEW d \in Calls, Writes(c), Reads(d) \/ Writes(d)
               PROVE  c = d
    BY DEF NoRaceForMainThread
  <2>1. Busy(c) /\ Busy(d)
    BY DEF CarefulInv, CallInv, Writes, Reads, Busy, StopPoints
  <2> QED
    BY <2>1 DEF CarefulInv, OneBusy
<1> QED
  BY <1>1, CarefulInvariant, PTL
=============================================================================
