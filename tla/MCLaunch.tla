------------------------------ MODULE MCLaunch ------------------------------
(***************************************************************************)
(* Documents for TLC: every combination of the keys that change what the   *)
(* child does, and documents that differ from a plain one in a few values. *)
(* The ids of "user" differ, those of "same" do not, and wheel's is 0.     *)
(***************************************************************************)
EXTENDS Launch, FiniteSets

Users  == [user |-> [uid |-> 1, gid |-> 2], same |-> [uid |-> 3, gid |-> 3]]
Groups == [wheel |-> 0, staff |-> 3]

Keep(j, keys) == [k \in DOMAIN j \cap keys |-> j[k]]

Full == [Label |-> "label", UserName |-> "user", GroupName |-> "wheel",
         Program |-> "path", ProgramArguments |-> <<"argument">>,
         WorkingDirectory |-> "/", RootDirectory |-> "/", Nice |-> 5,
         AbandonProcessGroup |-> TRUE]

Plain == [Label |-> "label", Program |-> "path"]

With(j, key, value) == [k \in DOMAIN j \cup {key} |-> IF k = key THEN value ELSE j[k]]

Combinations == {Keep(Full, keys) : keys \in SUBSET DOMAIN Full}

Variations ==
    {With(Plain, key, TRUE) : key \in NotSupported \cup {"Disabled", "RunAtLoad"}}
        \cup {With(Plain, "KeepAlive", v) : v \in {"true", "false", "{Always: true}", "{}"}}
        \cup {With(Plain, "Umask", v) : v \in {"octal", "number"}}
        \cup {With(Plain, key, "fifo") : key \in {"StandardInPath", "StandardOutPath", "StandardErrorPath"}}
        \cup {With(Plain, "UserName", v) : v \in {"user", "same", "nobody"}}
        \cup {With(With(Plain, "UserName", "same"), "GroupName", v) : v \in {"staff", "nogroup"}}
        \cup {With(With(Plain, "UserName", "user"), "InitGroups", FALSE)}
        \cup {With(Plain, "Label", v) : v \in {"", "with/slash"}}
        \cup {With(Plain, "StartInterval", 1000), With(Plain, "ThrottleInterval", 0),
              With(Plain, "GroupName", "nogroup"),
              With(Keep(Plain, {"Label"}), "ProgramArguments", <<>>)}

AllDocuments == Combinations \cup Variations
PlainDocument == {Plain}
UserDocument  == {With(With(Plain, "UserName", "user"), "GroupName", "wheel")}
=============================================================================
