----------------------------- MODULE MCProgram -----------------------------
(* Small instances of Program for TLC. *)
EXTENDS Program

\* An entry that lacks nothing; its log file has a name.
Full == [cmd |-> Number(1), ip_port |-> Text(<<"server">>), req |-> Text(<<"text">>),
         log_file |-> Text(<<"name">>), thread_num |-> Number(2),
         load_test_time |-> Number(1), times_limit |-> Number(3), frequence |-> Number(2)]

With(name, json) == [Full EXCEPT ![name] = json]

\* Entries with one thing missing, of another type, or out of the ordinary.
Entries ==
    {Full}
    \cup {With(name, Missing) : name \in DOMAIN Full}
    \cup {With("cmd", json) : json \in {Text(<<"text">>), Number(0), Number(-1)}}
    \cup {With("ip_port", Text(parts)) : parts \in {<<>>, <<"bare">>, <<"server", "bare">>}}
    \cup {With("thread_num", Number(n)) : n \in {-1, 0, 1}}
    \cup {With("times_limit", Number(n)) : n \in {0, IntModulus, IntModulus + 1, -1}}
    \cup {With("log_file", Text(<<>>))}

\* One entry, or two of which the second is complete.
OneOrTwo ==
    {<<e>> : e \in Entries}
    \cup {<<e, With("frequence", Number(1))>> : e \in Entries}

=============================================================================
