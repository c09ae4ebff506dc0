--------------------------- MODULE MCStreamingFile ---------------------------
(* Model values for the runs of StreamingFileHandler. *)
EXTENDS StreamingFileHandler

CONSTANTS MaxComponents,  \* bound: components of a path
          Kinds           \* what the plain path may lead to

Components == {"a", "b", "..", "."}

RawPaths == SeqOf(Components, MaxComponents)
            \cup {<<"/">> \o p : p \in SeqOf(Components, MaxComponents - 1)}

\* One path leads to files of every length and to what else there may be, the
\* others to nothing.
MCRequests ==
  {[rawPath |-> <<"a">>, kind |-> k, length |-> n] : k \in Kinds, n \in 0..MaxFileSize}
  \cup {[rawPath |-> p, kind |-> "other", length |-> 0] : p \in RawPaths}

\* A server whose local time is GMT, and one an hour west of it (the unit of
\* the model's times).
GMT == {0}
West == {1}
=============================================================================
