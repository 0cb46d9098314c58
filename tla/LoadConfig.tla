----------------------------- MODULE LoadConfig -----------------------------
(***************************************************************************)
(* LoadTestConfig of src/src/loadConfig.cpp: what parse makes of one entry *)
(* of the configuration file, and the numbers main gives to the setters of *)
(* TestFrame.                                                              *)
(*                                                                         *)
(* An entry is a function from the names it is asked for to JSON values: a *)
(* value is of type "int", with the number, of type "string", with its     *)
(* parts, or of type "none", when the entry has no such name.  The parts   *)
(* of ip_port are what lies between its bars: "server", an address with a  *)
(* port, or "bare", one without a colon or with nothing on one side of it. *)
(* Other strings have one part or, when they are empty, none.              *)
(***************************************************************************)
EXTENDS Integers, Sequences

CONSTANTS
    IntModulus,     \* 2^32: an int has the values of a signed residue
    LongModulus     \* 2^64

ASSUME LoadConfigAssumption ==
    /\ IntModulus \in Nat \ {0} /\ IntModulus % 2 = 0
    /\ LongModulus \in Nat /\ IntModulus <= LongModulus

IntMax == IntModulus \div 2 - 1
IntMin == -(IntModulus \div 2)

Number(n) == [type |-> "int", number |-> n, parts |-> <<>>]
Text(parts) == [type |-> "string", number |-> 0, parts |-> parts]
Missing == [type |-> "none", number |-> 0, parts |-> <<>>]

\* The conversions to int and to unsigned int or unsigned long long.
ToInt(n) == ((n - IntMin) % IntModulus) + IntMin
ToUnsigned(n) == n % IntModulus
ToLong(n) == n % LongModulus

\* json_object_get_int saturates.
getInt(json) ==
    LET n == json.number
    IN  ToUnsigned(IF n > IntMax THEN IntMax ELSE IF n < IntMin THEN IntMin ELSE n)

\* The overloads of get: the name is there, with a value of the type.
has(entry, name, type) == entry[name].type = type

\* The entry is looked at no further without these.
HasCommand(entry) ==
    /\ has(entry, "cmd", "int") /\ getInt(entry["cmd"]) # 0
    /\ has(entry, "ip_port", "string")

\* The entry is loaded only with these, which are looked for after ip_port is read;
\* an entry without a server is reported and loaded all the same.
HasSettings(entry) ==
    /\ \A name \in {"req", "log_file"} : has(entry, name, "string")
    /\ \A name \in {"thread_num", "load_test_time", "times_limit", "frequence"} :
         has(entry, name, "int")

\* Splitting a part without a colon gives one string and the code looks at a second:
\* the string found there may seem empty, or not, or not be readable at all.
Unreadable(entry) == \E i \in DOMAIN entry["ip_port"].parts : entry["ip_port"].parts[i] = "bare"

\* How many servers may be read from ip_port.
Servers(entry) ==
    LET parts == entry["ip_port"].parts
        good == Len(SelectSeq(parts, LAMBDA part : part = "server"))
    IN  good..Len(parts)

\* CmdInfo, as far as something depends on it.
CmdInfo(entry, servers) ==
    [cmd |-> getInt(entry["cmd"]),
     servers |-> servers,
     log_file |-> entry["log_file"].parts # <<>>,
     thread_num |-> getInt(entry["thread_num"]),
     load_test_time |-> getInt(entry["load_test_time"]),
     times_limit |-> ToLong(entry["times_limit"].number),
     frequence |-> ToLong(entry["frequence"].number)]

\* Mutant: main gives the two limits to each other's setter.
SettingsSwapped(info) ==
    [threads |-> ToInt(info.thread_num), duration |-> ToInt(info.load_test_time),
     repeat |-> ToInt(info.frequence), frequence |-> ToInt(info.times_limit)]

\* What the setters of TestFrame, which take an int, make of it; a limit of zero is
\* not set, which is the same as set to zero.
Settings(info) ==
    [threads |-> ToInt(info.thread_num), duration |-> ToInt(info.load_test_time),
     repeat |-> ToInt(info.times_limit), frequence |-> ToInt(info.frequence)]
=============================================================================
