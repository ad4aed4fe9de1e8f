------------------------------ MODULE Manifest ------------------------------
(***************************************************************************)
(* What manifest.cc makes of a JSON document: defaults, unsupported keys,  *)
(* rectify() and validate().                                               *)
(*                                                                         *)
(* A document is a function from the keys it has to their values.  Strings *)
(* that nothing but the kernel looks at are reduced to what it makes of    *)
(* them: a path is a "file" or a "fifo".  A std::optional without a value  *)
(* is "none".                                                              *)
(***************************************************************************)
EXTENDS Integers, Sequences

Get(j, key, default) == IF key \in DOMAIN j THEN j[key] ELSE default

NotSupported == {"EnableGlobbing", "WatchPaths", "QueueDirectories", "StartOnMount",
                 "StartCalendarInterval", "Sockets"}

\* from_json() throws: an unsupported key, a Label that class Label rejects,
\* or a Umask that is neither a string nor a negative number (nlohmann::json
\* reads a plain number in a file as number_unsigned).
FromJsonThrows(j) == \/ DOMAIN j \cap NotSupported # {}
                     \/ Get(j, "Label", "label") \in {"", "with/slash"}
                     \/ Get(j, "Umask", "octal") = "number"

\* The members from_json() sets.  KeepAlive may be a boolean or an object; an
\* object without Always, like any other type, leaves the default.
FromJson(j) ==
    [label                 |-> Get(j, "Label", ""),
     user_name             |-> Get(j, "UserName", "none"),
     group_name            |-> Get(j, "GroupName", "none"),
     program               |-> Get(j, "Program", "none"),
     program_arguments     |-> Get(j, "ProgramArguments", <<>>),
     disabled              |-> Get(j, "Disabled", FALSE),
     run_at_load           |-> Get(j, "RunAtLoad", FALSE),
     keep_alive            |-> Get(j, "KeepAlive", "{}") \in {"true", "{Always: true}"},
     start_interval        |-> Get(j, "StartInterval", -1),
     throttle_interval     |-> Get(j, "ThrottleInterval", 10),
     nice                  |-> "Nice" \in DOMAIN j,
     init_groups           |-> Get(j, "InitGroups", TRUE),
     working_directory     |-> "WorkingDirectory" \in DOMAIN j,
     root_directory        |-> "RootDirectory" \in DOMAIN j,
     stdin_path            |-> Get(j, "StandardInPath", "file"),
     stdout_path           |-> Get(j, "StandardOutPath", "file"),
     stderr_path           |-> Get(j, "StandardErrorPath", "file"),
     abandon_process_group |-> Get(j, "AbandonProcessGroup", FALSE)]

RectifyThrows(m) == m.program = "none" /\ m.program_arguments = <<>>

\* Mutant: only Program is filled in.
RectifyProgram(m) ==
    IF m.program = "none" /\ m.program_arguments # <<>>
    THEN [m EXCEPT !.program = Head(m.program_arguments)] ELSE m

Rectify(m) ==
    [m EXCEPT !.program = IF @ = "none" THEN Head(m.program_arguments) ELSE @,
              !.program_arguments = IF @ = <<>> THEN <<m.program>> ELSE @]

Validate(m) == ~(m.group_name # "none" /\ m.user_name = "none")

\* from_json() as a whole.  validate() converts the label to a string, and
\* the conversion asserts that it is not empty: a document without Label gets
\* that far, and ends the program where every other fault is an exception
\* that loadManifest() catches.
Parse(j) ==
    IF FromJsonThrows(j) \/ RectifyThrows(FromJson(j)) THEN "refused"
    ELSE IF FromJson(j).label = "" THEN "abort"
    ELSE IF Validate(Rectify(FromJson(j))) THEN "accepted" ELSE "refused"
=============================================================================
