------------------------- MODULE HTTPHandlerFactory -------------------------
(***************************************************************************)
(* HTTPHandlerFactory (src/src/HTTPHandlerFactory.h): proxygen asks it for *)
(* the handler of each new request; it asks its Router and turns the match *)
(* into an HTTPHandler, or has the matched streaming route make a handler. *)
(* The user's function behind a streaming route may return a new object or *)
(* null, or throw, an argument taken from the path may be one that cannot  *)
(* be converted, and setRequestArgs of the new object may throw.           *)
(***************************************************************************)
EXTENDS Router

CONSTANT Throws  \* what the user's code may throw

ASSUME FactoryAssumption == Throws \subseteq {"std", "other"}

VARIABLES making,      \* how far the streaming route is
          handler,     \* what onRequest returned
          unowned,     \* objects made and neither returned nor deleted
          cause,       \* what kept this call from making a streaming handler
          terminated   \* an exception left onRequest, which is noexcept

factory == <<making, handler, unowned, cause, terminated>>
vars == <<routerVars, factory>>

TypeOK ==
  /\ RouterTypeOK
  /\ making \in {"no", "args", "catch"}
  /\ handler \in {"none", "HTTPHandler", "streaming", "nullptr"}
  /\ unowned \in Nat
  /\ cause \in {"none", "user", "argument"}
  /\ terminated \in BOOLEAN

Init ==
  /\ RouterInit
  /\ making = "no"
  /\ handler = "none"
  /\ unowned = 0
  /\ cause = "none"
  /\ terminated = FALSE

\* onRequest begins: router_.getHandler.
OnRequest(r) ==
  /\ GetHandler(r)
  /\ handler' = "none"
  /\ cause' = "none"
  /\ UNCHANGED <<making, unowned, terminated>>

\* onRequest returns what was made.
Return(kind) ==
  /\ phase' = "idle"
  /\ making' = "no"
  /\ handler' = kind
  /\ UNCHANGED <<lists, request, it, methodNotFound, match>>

\* A match that wraps an ordinary function or an error handler.
IsStreaming == match.route # 0 /\ table[match.route].streaming

\* Mutant: there is no default error handler.
MakeHTTPHandler_NoDefault ==
  /\ phase = "returned"
  /\ making = "no"
  /\ ~IsStreaming
  /\ Return(IF match.route = 0 /\ ~match.custom THEN "nullptr" ELSE "HTTPHandler")
  /\ UNCHANGED <<unowned, cause, terminated>>

MakeHTTPHandler ==
  /\ phase = "returned"
  /\ making = "no"
  /\ ~IsStreaming
  /\ Return("HTTPHandler")
  /\ UNCHANGED <<unowned, cause, terminated>>

\* The route's streamingHandler(): the user's function returns an object ...
MakeStreaming ==
  /\ phase = "returned"
  /\ making = "no"
  /\ IsStreaming
  /\ making' = "args"
  /\ unowned' = unowned + 1
  /\ UNCHANGED <<routerVars, handler, cause, terminated>>

\* ... or null ...
MakeNull ==
  /\ phase = "returned"
  /\ making = "no"
  /\ IsStreaming
  /\ Return("nullptr")
  /\ cause' = "user"
  /\ UNCHANGED <<unowned, terminated>>

\* ... or throws. Only a std::exception is caught.
Throw(from, e) ==
  /\ cause' = from
  /\ making' = "catch"
  /\ terminated' = (e = "other")
  /\ UNCHANGED <<routerVars, handler, unowned>>

MakeThrows(e) ==
  /\ phase = "returned"
  /\ making = "no"
  /\ IsStreaming
  /\ Throw("user", e)

\* setRequestArgs, with the arguments taken from the path, succeeds or throws.
SetRequestArgs ==
  /\ making = "args"
  /\ unowned' = unowned - 1
  /\ Return("streaming")
  /\ UNCHANGED <<cause, terminated>>

SetRequestArgsThrows(e) ==
  /\ making = "args"
  /\ Throw("user", e)

\* get_handler_args throws, before setRequestArgs is called: folly::to<double>
\* finds no number, say in an optional group that has not matched. A static
\* route has no arguments. Which patterns and paths come to this is left open.
ArgumentThrows ==
  /\ making = "args"
  /\ ~table[match.route].static
  /\ Throw("argument", "std")

\* Mutant: deletes ret whether or not it was made.
Catch_Always ==
  /\ making = "catch"
  /\ unowned' = unowned - 1
  /\ Return("nullptr")
  /\ UNCHANGED <<cause, terminated>>

\* Mutant: the object is not deleted.
Catch_Leaks ==
  /\ making = "catch"
  /\ Return("nullptr")
  /\ UNCHANGED <<unowned, cause, terminated>>

\* The catch: ret, if it was made, is deleted, and null is returned.
Catch ==
  /\ making = "catch"
  /\ unowned' = 0
  /\ Return("nullptr")
  /\ UNCHANGED <<cause, terminated>>

StreamingHandler ==
  \/ MakeStreaming \/ MakeNull \/ SetRequestArgs \/ ArgumentThrows \/ Catch
  \/ \E e \in Throws : MakeThrows(e) \/ SetRequestArgsThrows(e)

Next ==
  /\ ~terminated
  /\ \/ Construct /\ UNCHANGED factory
     \/ \E r \in Requests : OnRequest(r)
     \/ Search /\ UNCHANGED factory
     \/ MakeHTTPHandler
     \/ StreamingHandler

Spec == Init /\ [][Next]_vars

-----------------------------------------------------------------------------
(* Properties *)

\* Over any number of requests no object made by a streaming route is lost or
\* deleted twice: between calls each is with proxygen or gone, and one that
\* was handed over was not deleted by the catch (Route-inl.h:85-98,
\* StaticRoute-inl.h:26-40).
NoObjectLost ==
  /\ phase = "idle" => unowned = 0
  /\ handler = "streaming" => cause = "none"

\* proxygen gets a null handler only from a streaming route: one whose user
\* code returned null or threw, or one with a pattern, where an argument could
\* not be converted. Error handlers and ordinary routes always yield a handler
\* (HTTPHandlerFactory.h:53-72, Route-inl.h:85-98).
NullIsExplained ==
  phase = "idle" /\ handler = "nullptr" =>
    /\ IsStreaming
    /\ cause # "none"
    /\ cause = "argument" => ~table[match.route].static
=============================================================================
