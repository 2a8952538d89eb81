------------------------------- MODULE Values -------------------------------
(***************************************************************************)
(* The values that travel between the modules of the SDK and the server:   *)
(* tagged pairs, as in Go an interface{} holds a type and a value.         *)
(***************************************************************************)
Str(s)   == <<"str", s>>
Num(n)   == <<"num", n>>    \* a string that spells an integer
Fmt(v)   == <<"fmt", v>>    \* a string: a map or a list as fmt's %v prints it
I64(n)   == <<"int", n>>
Bool(b)  == <<"bool", b>>
Bytes(t) == <<"bytes", t>>  \* the bytes of text t as an array of numbers
Arr(s)   == <<"arr", s>>
Obj(f)   == <<"obj", f>>
Nil      == <<"nil">>
Done     == <<"done">>      \* a method that returns no value succeeded
Failed   == <<"error">>

IsText(v) == v[1] \in {"str", "num", "fmt"}
=============================================================================
