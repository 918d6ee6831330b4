------------------------------ MODULE GitHooks ------------------------------
(***************************************************************************)
(* sync/hooks.py: the code-memory block in the git hooks of a repository,  *)
(* installed and removed hook after hook, in files the user edits too.     *)
(*                                                                         *)
(* A hook file is a sequence of lines; blank lines are left out.           *)
(***************************************************************************)
EXTENDS Naturals, Sequences, SequencesExt, FiniteSets

CONSTANTS
  Hook,         \* HOOKS, a sequence
  Trigger,      \* the commands that versions of the program put in a block
  Foreign,      \* lines of the user
  MaxCommands, MaxEdits   \* bounds

START == "MARKER_START"
END   == "MARKER_END"
HEAD  == "#!"               \* the first lines the installer writes
Line  == Trigger \cup Foreign \cup {START, END, HEAD}
Hooks == ToSet(Hook)

HooksAssumption ==
  /\ Hook \in Seq(Hooks) /\ Hook # <<>>
  /\ Foreign \cap Trigger = {}
  /\ {START, END, HEAD} \cap (Foreign \cup Trigger) = {}
  /\ MaxCommands \in Nat /\ MaxEdits \in Nat

VARIABLES
  file,       \* file[h]: the lines of a hook, <<>> if there is none
  command,    \* the running install or uninstall, and the hooks to come
  last,       \* the last command that returned, and its trigger
  broken,     \* history: hooks whose markers the user broke, or torn
  commands, edits

vars == <<file, command, last, broken, commands, edits>>

Nothing == [op |-> "none", trigger |-> START, todo |-> <<>>]

TypeOK ==
  /\ \A h \in Hooks : file[h] \in Seq(Line)
  /\ command.todo \in Seq(Hooks)
  /\ broken \subseteq Hooks

Init ==
  /\ file \in [Hooks -> {<<>>} \cup {<<f>> : f \in Foreign}]
  /\ command = Nothing /\ last = Nothing
  /\ broken = {}
  /\ commands = 0 /\ edits = 0

-----------------------------------------------------------------------------
Has(text, line) == line \in ToSet(text)
FirstFrom(text, line, i) ==
  LET at == {j \in DOMAIN text : j >= i /\ text[j] = line}
  IN  IF at = {} THEN 0 ELSE Min(at)

(* str.index raises if there is no end marker after the first start.       *)
Start(text) == FirstFrom(text, START, 1)
End(text) == FirstFrom(text, END, Start(text))
Raises(text) == Has(text, START) /\ End(text) = 0

_block_for(trigger) == <<START, trigger, END>>

_replace_block(text, block) ==
  SubSeq(text, 1, Start(text) - 1) \o block
    \o SubSeq(text, End(text) + 1, Len(text))

(* Mutant: everything from the start marker on is ours. *)
_strip_block_Tail(text) == SubSeq(text, 1, Start(text) - 1)

_strip_block(text) ==
  SubSeq(text, 1, Start(text) - 1) \o SubSeq(text, End(text) + 1, Len(text))

(* Mutant: only a block of this very version counts as installed. *)
Installed_ThisVersion(text, block) ==
  IF text = <<>> THEN <<HEAD>> \o block
  ELSE IF Has(text, block[2])
  THEN _replace_block(text, block)
  ELSE text \o block

Installed(text, block) ==
  IF text = <<>> THEN <<HEAD>> \o block
  ELSE IF Has(text, START) /\ Has(text, END)
  THEN _replace_block(text, block)
  ELSE text \o block

(* A file that only holds what the installer wrote is removed. *)
Removed(text) ==
  IF ~Has(text, START) THEN text
  ELSE IF _strip_block(text) = <<HEAD>> THEN <<>> ELSE _strip_block(text)

-----------------------------------------------------------------------------
Call(op, trigger) ==
  /\ command = Nothing /\ commands < MaxCommands
  /\ commands' = commands + 1
  /\ command' = [op |-> op, trigger |-> trigger, todo |-> Hook]
  /\ last' = Nothing
  /\ UNCHANGED <<file, broken, edits>>

(* The hook is done; the command returns after the last one. *)
Done ==
  IF Len(command.todo) = 1
  THEN command' = Nothing /\ last' = command
  ELSE command' = [command EXCEPT !.todo = Tail(@)] /\ UNCHANGED last

(* A ValueError ends the command: the hooks to come stay as they are. *)
Raise == command' = Nothing /\ UNCHANGED <<file, last>>

install_hooks ==
  /\ command.op = "install"
  /\ LET h == Head(command.todo)
     IN  IF Has(file[h], END) /\ Raises(file[h]) THEN Raise
         ELSE /\ file' = [file EXCEPT ![h] =
                            Installed(@, _block_for(command.trigger))]
              /\ Done
  /\ UNCHANGED <<broken, commands, edits>>

uninstall_hooks ==
  /\ command.op = "uninstall"
  /\ LET h == Head(command.todo)
     IN  IF Raises(file[h]) THEN Raise
         ELSE file' = [file EXCEPT ![h] = Removed(@)] /\ Done
  /\ UNCHANGED <<broken, commands, edits>>

(* A command is killed while it writes: write_text is not atomic. *)
Torn ==
  /\ command # Nothing /\ edits < MaxEdits /\ edits' = edits + 1
  /\ file' = [file EXCEPT ![Head(command.todo)] = <<>>]
  /\ broken' = broken \cup {Head(command.todo)}
  /\ command' = Nothing
  /\ UNCHANGED <<last, commands>>

(* Between commands the user adds a line of his own outside our block, or  *)
(* deletes a line, a marker of ours included.                              *)
Edit(h) ==
  /\ command = Nothing
  /\ edits < MaxEdits /\ edits' = edits + 1
  /\ \/ /\ \E f \in Foreign, i \in 0 .. Len(file[h]) :
             /\ ~Has(file[h], f)
             /\ ~(Start(file[h]) \in 1 .. i /\ i < End(file[h]))
             /\ file' = [file EXCEPT ![h] = InsertAt(@, i + 1, f)]
        /\ UNCHANGED broken
     \/ \E i \in DOMAIN file[h] :
          /\ file' = [file EXCEPT ![h] = RemoveAt(@, i)]
          /\ broken' = IF file[h][i] \in Foreign \cup {HEAD}
                       THEN broken ELSE broken \cup {h}
  /\ last' = Nothing
  /\ UNCHANGED <<command, commands>>

Step == install_hooks \/ uninstall_hooks

Next ==
  \/ \E t \in Trigger : Call("install", t)
  \/ Call("uninstall", START)
  \/ Step \/ Torn
  \/ \E h \in Hooks : Edit(h)

Spec == Init /\ [][Next]_vars

-----------------------------------------------------------------------------
(* A command that returned has done its work in every hook whose markers   *)
(* are whole: one block, of this version of the program, or none; whatever *)
(* was installed, removed and edited before, and even if a command died    *)
(* half-way.  There is never a second block.                               *)
Count(text, line) == Cardinality({i \in DOMAIN text : text[i] = line})
OneBlock ==
  \A h \in Hooks \ broken :
    /\ Count(file[h], START) = Count(file[h], END)
    /\ Count(file[h], START) <= 1
    /\ last.op = "install" =>
         ToSet(file[h]) \cap Trigger = {last.trigger}
    /\ last.op = "uninstall" => ToSet(file[h]) \subseteq Foreign \cup {HEAD}

(* Lines of the user stay, in their order, in a hook whose markers are     *)
(* whole: "without disturbing the rest of the file".  A line of his is in  *)
(* a hook once at most, and stands before every line that it stood before, *)
(* itself no more than ever.                                               *)
Before(text, k, l) ==
  \E i, j \in DOMAIN text : i < j /\ text[i] = k /\ text[j] = l
Stays(old, new) ==
  \A k, l \in Foreign : /\ Has(new, k) <=> Has(old, k)
                        /\ Before(new, k, l) <=> Before(old, k, l)
ForeignKept ==
  [][Step => \A h \in Hooks \ broken : Stays(file[h], file'[h])]_vars
=============================================================================
