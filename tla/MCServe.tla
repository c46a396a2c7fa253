----------------------------- MODULE MCServe ---------------------------------
(* Small instances of Serve and, in it, Bootstrap: replicas with the same     *)
(* administrator, servers with other configurations, and commands.           *)
EXTENDS Serve

CONSTANT h1

MCText == {"", " ", "Ann", "a@x", " a@x", "b@x", "p", " p "}
MCTrim == [t \in MCText |-> CASE t = " "    -> ""
                              [] t = " a@x" -> "a@x"
                              [] t = " p "  -> "p"
                              [] OTHER      -> t]
MCUser == {"u1", "u2", "u3", "u4"}
MCInitUsers == [u \in MCUser |-> Absent]

SameConfig  == [database |-> TRUE, email |-> "a@x", password |-> " p ", name |-> "Ann"]
SpacedConfig == [SameConfig EXCEPT !.email = " a@x"]
OtherConfig == [SameConfig EXCEPT !.email = "b@x"]
NoConfig    == [database |-> FALSE, email |-> "", password |-> " ", name |-> ""]

\* Two replicas with one administrator, of which the second one's gfire.base_url does
\* not parse; and a server on the address of the first, without bootstrap and database.
MCServer  == {"s1", "s2", "s3"}
MCConfig  == [s \in MCServer |-> CASE s = "s1" -> SameConfig
                                   [] s = "s2" -> SpacedConfig
                                   [] OTHER    -> NoConfig]
MCAddress == [s \in MCServer |-> IF s \in {"s1", "s3"} THEN ":8090" ELSE s]
MCGFire   == [s \in MCServer |-> CASE s = "s2" -> "malformed" [] s = "s3" -> "empty"
                                   [] OTHER -> "valid"]

\* A command that takes the same e-mail address.
MCCommand == {"c1"}
MCInput == [c \in MCCommand |->
    [email |-> " a@x", password |-> " p ", name |-> "Ann", role |-> "Auditor"]]
MCNewId == [p \in MCServer \union MCCommand |->
    CASE p = "s1" -> "u1" [] p = "s2" -> "u2" [] p = "s3" -> "u3"
      [] OTHER -> "u4"]

\* Two servers with different addresses.
TwoServers == {"s1", "s2"}
TwoConfig  == [s \in TwoServers |-> IF s = "s1" THEN SameConfig ELSE OtherConfig]
TwoAddress == [s \in TwoServers |-> s]
TwoGFire   == [s \in TwoServers |-> "empty"]
NoCommand  == {}
NoInput    == [c \in NoCommand |-> MCInput["c1"]]
TwoIds     == [p \in TwoServers |-> MCNewId[p]]
=============================================================================
