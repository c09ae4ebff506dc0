------------------------------- MODULE Config -------------------------------
(***************************************************************************)
(* Config (src/src/Config.h and Config.cpp): the settings of a server. A   *)
(* constructor calls the setters one after the other; the first that       *)
(* objects ends it with std::invalid_argument. A setting has no value,     *)
(* whatever was in memory, until its setter has run.                       *)
(***************************************************************************)
EXTENDS Integers, Sequences

CONSTANTS SizeLimit,      \* 2 to the width of size_t
          MaxBufferSize,  \* 1024 * 1024 * 1024
          Addresses,      \* lists of addresses tried, each "good" or "bad"
          WorkerThreads,  \* numbers of threads tried
          Timeouts,       \* timeouts tried, in milliseconds
          BufferSizes     \* buffer sizes tried

\* What a path may name when setPublicDir looks at it.
PathNames == {"directory", "link to directory", "file", "link to file", "missing"}

ASSUME ConfigAssumption ==
  /\ SizeLimit \in Nat \ {0}
  /\ MaxBufferSize \in Nat
  /\ Addresses \subseteq Seq({"good", "bad"})
  /\ WorkerThreads \subseteq Int
  /\ Timeouts \subseteq Int
  /\ BufferSizes \subseteq Int

VARIABLES args,      \* arguments of the constructor
          settings,  \* the members set so far
          config     \* the setter that is next, "built", or "thrown"

configVars == <<args, settings, config>>

Arguments == [addresses : Addresses, workerThreads : WorkerThreads,
              publicDir : PathNames \cup {"none"}, requestTimeout : Timeouts,
              fileReaderBufferSize : BufferSizes]

Resolvable == \A i \in DOMAIN args.addresses : args.addresses[i] = "good"

\* An argument of type size_t receives a number modulo SizeLimit.
AsSize(n) == n % SizeLimit

\* What is in memory before a setter has run: no value that it would accept.
Unset == [addresses |-> <<>>, workerThreads |-> 0, publicDir |-> "unset",
          requestTimeout |-> 0, fileReaderBufferSize |-> 0]

\* One constructor takes names of hosts, the other addresses.
ConfigInit ==
  /\ args \in Arguments
  /\ settings = Unset
  /\ \/ config = "newHTTPAddresses"
     \/ config = "setHTTPAddresses" /\ Resolvable

-----------------------------------------------------------------------------

\* One setter: it objects, or assigns the member and the next one is called.
Set(setter, valid, member, value, next) ==
  /\ config = setter
  /\ \/ /\ valid
        /\ settings' = [settings EXCEPT ![member] = value]
        /\ config' = next
     \/ /\ ~valid
        /\ config' = "thrown"
        /\ UNCHANGED settings
  /\ UNCHANGED args

\* Each name is turned into an address; one that cannot be resolved is
\* reported as an invalid argument.
ResolveAddresses ==
  /\ config = "newHTTPAddresses"
  /\ config' = IF Resolvable THEN "setHTTPAddresses" ELSE "thrown"
  /\ UNCHANGED <<args, settings>>

SetHTTPAddresses ==
  Set("setHTTPAddresses", args.addresses # <<>>, "addresses", args.addresses,
      "setWorkerThreads")

\* Mutant: the number stays signed.
SetWorkerThreads_Signed ==
  Set("setWorkerThreads", args.workerThreads # 0, "workerThreads",
      args.workerThreads, "setPublicDir")

SetWorkerThreads ==
  Set("setWorkerThreads", AsSize(args.workerThreads) # 0, "workerThreads",
      AsSize(args.workerThreads), "setPublicDir")

\* fs::canonical follows links, and throws for a path that does not exist.
Canonical(path) ==
  CASE path = "link to directory" -> "directory"
    [] path = "link to file" -> "file"
    [] OTHER -> path

\* Mutant: whatever exists is accepted.
SetPublicDir_Exists ==
  Set("setPublicDir", args.publicDir # "missing", "publicDir",
      Canonical(args.publicDir), "setRequestTimeout")

\* No public directory, or one that is a directory after all links.
SetPublicDir ==
  Set("setPublicDir", Canonical(args.publicDir) \in {"directory", "none"},
      "publicDir", Canonical(args.publicDir), "setRequestTimeout")

SetRequestTimeout ==
  Set("setRequestTimeout", args.requestTimeout > 0, "requestTimeout",
      args.requestTimeout, "setFileReaderBufferSize")

SetFileReaderBufferSize ==
  LET size == AsSize(args.fileReaderBufferSize)
  IN  Set("setFileReaderBufferSize", size # 0 /\ size <= MaxBufferSize,
          "fileReaderBufferSize", size, "built")

Construct ==
  \/ ResolveAddresses
  \/ SetHTTPAddresses
  \/ SetWorkerThreads
  \/ SetPublicDir
  \/ SetRequestTimeout
  \/ SetFileReaderBufferSize

-----------------------------------------------------------------------------

ConfigTypeOK ==
  /\ args \in Arguments
  /\ settings \in [addresses : Addresses \cup {<<>>}, workerThreads : 0..(SizeLimit - 1),
                   publicDir : PathNames \cup {"none", "unset"},
                   requestTimeout : Timeouts \cup {0},
                   fileReaderBufferSize : 0..MaxBufferSize]
  /\ config \in {"newHTTPAddresses", "setHTTPAddresses", "setWorkerThreads", "setPublicDir",
                 "setRequestTimeout", "setFileReaderBufferSize", "built", "thrown"}

\* What a user can rely on who has passed a list of addresses and four
\* settings (Config.h:38-51).
Usable(s) ==
  /\ s.addresses # <<>>
  /\ \A i \in DOMAIN s.addresses : s.addresses[i] = "good"
  /\ s.workerThreads \in 1..(SizeLimit - 1)
  /\ s.publicDir \in {"directory", "none"}
  /\ s.publicDir = "none" <=> args.publicDir = "none"
  /\ s.requestTimeout > 0
  /\ s.fileReaderBufferSize \in 1..MaxBufferSize

\* The arguments that no setter can object to, all looked at together.
Acceptable ==
  Usable([args EXCEPT !.workerThreads = AsSize(@), !.fileReaderBufferSize = AsSize(@),
                      !.publicDir = Canonical(@)])

\* Whatever the order of the checks, a Config that exists is usable as a whole
\* and what was refused was not: no setting is left to chance
\* (Config.cpp:66-106).
ConfigIsUsable ==
  /\ config = "built" => Usable(settings)
  /\ config = "thrown" => ~Acceptable
=============================================================================
