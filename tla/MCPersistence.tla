--------------------------- MODULE MCPersistence ---------------------------
(* Small instances of Persistence. *)
EXTENDS Persistence

Field(n, p, t, k) == [name |-> n, path |-> p, tag |-> t, kind |-> k]

\* The fields of the App component of README.md.
AppShape == <<Field("PreviousExecutions", "App", "native", "int"),
              Field("LastExecutedDateTime", "App", "native", "string"),
              Field("ApiKey", "App", "encrypt", "string")>>

NativeShape == <<Field("Count", "C", "native", "int"), Field("Label", "C.Inner", "native", "string")>>

AppAndNative == {AppShape, NativeShape}
Native == {NativeShape}
=============================================================================
