---------------------------- MODULE MCGeeServer ----------------------------
(* The receivers main.go registers, plus one with a method of each shape    *)
(* registerMethods has to judge, registered twice like Foo to exercise the *)
(* duplicate path of Server.Register.                                       *)
EXTENDS GeeServer

\* Types of method parameters: what reflect reports of them.
ArgsT  == [ptr |-> FALSE, elem |-> FALSE, exported |-> TRUE,  builtin |-> FALSE] \* main.Args
IntT   == [ptr |-> FALSE, elem |-> FALSE, exported |-> FALSE, builtin |-> TRUE]  \* int
PtrInt == [ptr |-> TRUE,  elem |-> TRUE,  exported |-> FALSE, builtin |-> FALSE] \* *int
MapT   == [ptr |-> FALSE, elem |-> TRUE,  exported |-> FALSE, builtin |-> TRUE]  \* map[string]int

\* main.Foo: Sum and Sleep, both (Args, *int) error.
Foo == [name |-> "Foo",
        methods |-> {[name |-> m, nin |-> 3, outs |-> <<"error">>,
                      arg |-> ArgsT, reply |-> PtrInt] : m \in {"Sum", "Sleep"}}]

\* Bar: Total(Args, int) and Index(Args, map[string]int) take their reply
\* by value; Reset takes two arguments.
Bar == [name |-> "Bar",
        methods |-> {[name |-> "Total", nin |-> 3, outs |-> <<"error">>,
                      arg |-> ArgsT, reply |-> IntT],
                     [name |-> "Index", nin |-> 3, outs |-> <<"error">>,
                      arg |-> ArgsT, reply |-> MapT],
                     [name |-> "Reset", nin |-> 4, outs |-> <<"error">>,
                      arg |-> ArgsT, reply |-> PtrInt]}]

MCRcvrs == <<Foo, Bar, Foo>>

MCNames == {<<"Foo", "Sum">>, <<"Bar", "Total">>, <<"Bar", "Index">>,
            <<"Bar", "Reset">>}
=============================================================================
