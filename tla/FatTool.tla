----------------------------- MODULE FatTool -----------------------------
(***************************************************************************)
(* The command line tool, src/src/fat_tool.cpp: it works through its       *)
(* commands on an image in memory and ends at the first one that fails.    *)
(* What outlives it is the image file a command has saved, and which a     *)
(* later call of the tool loads again.                                     *)
(*                                                                         *)
(* One command is one step.  Files of the host may be missing, unreadable  *)
(* or unwritable at any time.                                              *)
(***************************************************************************)
EXTENDS Fatfs

CONSTANTS
    NoFile,         \* there is no image file
    MaxUnsaved      \* bound: commands that change the image since it was saved or loaded

ASSUME UnsavedAssumption == MaxUnsaved \in Nat

VARIABLES
    state,      \* "first": nothing is mounted; "ready"; "exit0" and "exit1": it has ended
    file,       \* the image file: NoFile, or the volume in it and whether it was excused
    unsaved,    \* commands that changed the image since
    failed,     \* a call of fatfs has failed
    excused     \* history: the image in memory has met one of the volume's excuses

toolVars == <<fatfsVars, state, file, unsaved, failed, excused>>

\* The tool has been started and no image is in memory.
ToolInit ==
    /\ Init
    /\ state = "first" /\ file = NoFile /\ unsaved = 0 /\ failed = FALSE
    /\ excused = FALSE

------------------------------------------------------------------------
(* The end of the tool: the image in memory is gone.                       *)

Exit(code) ==
    /\ state' = code
    /\ vol' = Created /\ tree' = Tree!Empty /\ unsaved' = 0 /\ excused' = FALSE

\* A command that cannot be carried out, because of its arguments, a file of
\* the host, or a call that failed, ends the tool.
Refused ==
    /\ state \in {"first", "ready"}
    /\ Exit("exit1") /\ failed' = TRUE /\ UNCHANGED file

\* Files of the host that cannot be read or written, and arguments that are no
\* numbers.
Unreadable == Refused
Unwritable == Refused
BadNumber  == Refused

\* Unknown commands, and all but create and mount while nothing is mounted.
UnknownCommand == Refused

\* All commands are done, or one was -help.
Finished ==
    /\ state \in {"first", "ready"}
    /\ Exit("exit0") /\ UNCHANGED <<failed, file>>

Start ==
    /\ state \in {"exit0", "exit1"}
    /\ state' = "first" /\ failed' = FALSE
    /\ UNCHANGED <<fatfsVars, file, unsaved, excused>>

------------------------------------------------------------------------
(* The image as a whole.                                                   *)

\* An image that was in memory is deleted.
InMemory(v, ex) ==
    /\ state' = "ready" /\ unsaved' = 0
    /\ Becomes(v) /\ excused' = ex
    /\ UNCHANGED <<file, failed>>

Create == state \in {"first", "ready"} /\ (InMemory(Created, FALSE) \/ BadNumber)

Mount ==
    /\ state \in {"first", "ready"}
    /\ \/ file # NoFile /\ InMemory(Mounted(file.image), file.excused)
       \/ Unreadable
       \/ BadNumber

\* The file is emptied before it is written: what is left when that fails is no
\* image.
TornImage == Exit("exit1") /\ failed' = TRUE /\ file' = NoFile

\* Whatever is in memory is saved, sound or not.
SaveImage ==
    /\ state = "ready"
    /\ \/ /\ file' = [image |-> Mounted(vol), excused |-> excused] /\ unsaved' = 0
          /\ UNCHANGED <<fatfsVars, state, failed, excused>>
       \/ Unwritable
       \/ TornImage

\* Raw data is written outside the volume only; the ranges may be refused.
WriteRaw ==
    /\ state = "ready"
    /\ \/ UNCHANGED toolVars
       \/ Unreadable
       \/ BadNumber

ReadRaw ==
    /\ state = "ready"
    /\ \/ UNCHANGED toolVars
       \/ Unwritable
       \/ BadNumber

------------------------------------------------------------------------
(* Commands on the volume.                                                 *)

Changed(v) ==
    /\ unsaved < MaxUnsaved
    /\ Becomes(v)
    /\ unsaved' = IF Forget(v) = vol THEN unsaved ELSE unsaved + 1
    /\ excused' = (excused \/ Excused(vol'))
    /\ UNCHANGED <<state, file>>

\* Mutant: a command that fails does not end the tool.
CheckedMut(answer) == Changed(answer.vol) /\ failed' = (failed \/ ~answer.ok)

\* A command whose answer is looked at.
Checked(answer) ==
    IF answer.ok THEN Changed(answer.vol) /\ UNCHANGED failed ELSE Refused

MkdirCommand == \E p \in NewPaths : Checked(MkDir(vol, p))
CdCommand    == \E p \in Paths : Checked(Cd(vol, p))

\* The file of the host is read before anything else is done.
WriteFileCommand ==
    \/ \E p \in NewPaths, x \in Contents : Checked(WriteFile(vol, p, x))
    \/ Unreadable

\* The file of the host may not be writable.
ReadFileCommand ==
    \/ \E p \in Paths : Checked(Answer(ReadFile(vol, p).ok, vol))
    \/ Unwritable

DirCommand == \E p \in Paths : Checked(Answer(Dir(vol, p), vol))

\* The answer is printed and never ends the tool.
ExistsCommand == UNCHANGED toolVars

\* The answer is ignored.
DeleteCommand ==
    \E p \in Paths :
        LET answer == DeleteFile(vol, p)
        IN  Changed(answer.vol) /\ failed' = (failed \/ ~answer.ok)

\* What commands make of an image that is not sound any more is not followed; it
\* can be saved and mounted as it is.
Command ==
    /\ state = "ready" /\ tree # Tree!Broken
    /\ \/ MkdirCommand
       \/ CdCommand
       \/ WriteFileCommand
       \/ ReadFileCommand
       \/ DirCommand
       \/ ExistsCommand
       \/ DeleteCommand

ToolNext ==
    \/ Start
    \/ Finished
    \/ UnknownCommand
    \/ Create
    \/ Mount
    \/ SaveImage
    \/ WriteRaw
    \/ ReadRaw
    \/ Command

ToolSpec == ToolInit /\ [][ToolNext]_toolVars

------------------------------------------------------------------------
(* Properties.                                                             *)

\* A call that fails half-way may leave clusters marked used that nothing leads
\* to, but it ends the tool before the image can be saved: in a saved image that
\* has met none of the volume's excuses every used cluster belongs to a file or a
\* directory.  One that has, on a full volume or with a chain extended beyond the
\* last cluster, is saved with what it has lost, and nothing is said of it.
FileLosesNothing == file # NoFile /\ ~file.excused => Lost(file.image) = {}

\* What a command left half written never gets into a saved image that has met
\* none of the volume's excuses: it is sound, and every file there reads back as
\* contents that a writefile was given, in full.
FilesAreWhole ==
    file # NoFile /\ ~file.excused =>
        LET nodes == NodesOf(file.image)
        IN  /\ Sound(file.image, nodes)
            /\ Range(TreeOf(file.image, nodes)) \subseteq Contents \cup {"dir"}

\* What the comment on execute_commands says, "returns: 0=ok, >0=error"
\* (fat_tool.cpp:146): the tool ends with 0 only if no command failed.
ExitZeroMeansOk == state = "exit0" => ~failed
=============================================================================
