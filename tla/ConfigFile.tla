----------------------------- MODULE ConfigFile -----------------------------
(***************************************************************************)
(* The configuration file and the commands that change it: loadConfig,     *)
(* saveConfig and updateConfig, called by "node", "topology" and "routing" *)
(* commands, each a process of its own.  A command loads the file, often   *)
(* asks the user, and saves the whole configuration with writeFile, which  *)
(* truncates the file when it opens it and writes it later.  There is no   *)
(* lock.                                                                   *)
(***************************************************************************)
EXTENDS Config

CONSTANTS Command   \* processes of the command line

VARIABLES
  file,      \* [state, config]: what the file holds
  command,   \* per process: [pc, op, new]
  mishap     \* have commands overlapped, or has one died while it wrote

fileVars == <<file, command, mishap>>

Idle == "idle"

(* "missing" is the state before the first save, "garbage" what a shorter  *)
(* text leaves that is written over a longer one.                          *)
FileState == {"missing", "ok", "empty", "garbage"}

NoCommand == [pc |-> Idle, op |-> None, new |-> DEFAULT_CONFIG]

FileTypeOK ==
  /\ file \in [state : FileState, config : ClawverseConfig]
  /\ command \in [Command -> [pc : {Idle, "loaded", "writing"},
                              op : Operation \union {None}, new : ClawverseConfig]]
  /\ mishap \in BOOLEAN

FileInit ==
  /\ file = [state |-> "missing", config |-> DEFAULT_CONFIG]
  /\ command = [p \in Command |-> NoCommand]
  /\ mishap = FALSE

Text(c) == [state |-> "ok", config |-> c]
Broken(s) == [state |-> s, config |-> DEFAULT_CONFIG]

(* loadConfig parses the file; without one it answers with the defaults,   *)
(* and what is neither fails every command.                                *)
Readable == file.state \in {"missing", "ok"}

(* A command whose check of the loaded configuration fails ends there and  *)
(* changes nothing; for it there is no step.                               *)
Load(p, op) ==
  /\ command[p].pc = Idle
  /\ Readable
  /\ Accepts(op, file.config)
  /\ command' = [command EXCEPT ![p] = [pc |-> "loaded", op |-> op,
                                        new |-> Apply(op, file.config)]]
  /\ mishap' = (mishap \/ \E q \in Command \ {p} : command[q].pc # Idle)
  /\ UNCHANGED file

(* Mutant of Open: the configuration is not validated. *)
OpenUnchecked(p) ==
  /\ command[p].pc = "loaded"
  /\ file' = Broken("empty")
  /\ command' = [command EXCEPT ![p].pc = "writing"]
  /\ UNCHANGED mishap

(* Mutant of Open: the file is opened for an update in place. *)
OpenUntruncated(p) ==
  /\ command[p].pc = "loaded"
  /\ validateConfig(command[p].new)
  /\ command' = [command EXCEPT ![p].pc = "writing"]
  /\ UNCHANGED <<file, mishap>>

(* saveConfig up to the open of writeFile.                                 *)
Open(p) ==
  /\ command[p].pc = "loaded"
  /\ validateConfig(command[p].new)
  /\ file' = Broken("empty")
  /\ command' = [command EXCEPT ![p].pc = "writing"]
  /\ UNCHANGED mishap

(* saveConfig throws, and the command ends.                                *)
Invalid(p) ==
  /\ command[p].pc = "loaded"
  /\ ~ validateConfig(command[p].new)
  /\ command' = [command EXCEPT ![p] = NoCommand]
  /\ UNCHANGED <<file, mishap>>

(* The write.  If the file is not empty another command has written since  *)
(* this one truncated it: a longer text covers that, a shorter one leaves  *)
(* its end.                                                                *)
Write(p) ==
  /\ command[p].pc = "writing"
  /\ \/ file' = Text(command[p].new)
     \/ file.state # "empty" /\ file # Text(command[p].new) /\ file' = Broken("garbage")
  /\ command' = [command EXCEPT ![p] = NoCommand]
  /\ UNCHANGED mishap

(* The user interrupts the command, or the machine stops.                  *)
Kill(p) ==
  /\ command[p].pc # Idle
  /\ command' = [command EXCEPT ![p] = NoCommand]
  /\ mishap' = (mishap \/ command[p].pc = "writing")
  /\ UNCHANGED file

FileNext ==
  \E p \in Command :
    \/ \E op \in Operation : Load(p, op)
    \/ Open(p) \/ Invalid(p) \/ Write(p) \/ Kill(p)

FileSpec == FileInit /\ [][FileNext]_fileVars

-----------------------------------------------------------------------------
(* Whatever the daemon or a command can read of the file is valid: commands *)
(* that overlap may lose changes or spoil the file, but no reader is ever   *)
(* given a mixture of two configurations.                                  *)
FileSound == file.state \in {"missing", "ok"} => validateConfig(file.config)

(* Removing a node never fails: removeNode leaves no reference to it, so   *)
(* that saveConfig accepts what it makes of a configuration.               *)
RemovalsSucceed ==
  \A p \in Command :
    command[p].pc = "loaded" /\ command[p].op.kind = "remove" => validateConfig(command[p].new)

(* While commands run one after the other the file is the store the user   *)
(* expects of them: each command that reports success has changed the      *)
(* configuration as it found it, and nothing else has.  From the moment a  *)
(* command truncates the file, the store holds what it is about to write.  *)
Stored ==
  IF \E p \in Command : command[p].pc = "writing"
  THEN command[CHOOSE p \in Command : command[p].pc = "writing"].new
  ELSE file.config

Store == INSTANCE ConfigStore WITH stored <- Stored

SerialImplementsStore == Store!Init /\ [][~ mishap' => Store!Next]_Stored
=============================================================================
