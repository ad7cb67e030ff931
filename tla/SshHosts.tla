------------------------------ MODULE SshHosts -------------------------------
(***************************************************************************)
(* The SSH plugin (src/ssh-plugin.vala): the hosts of one file, parsed by  *)
(* asynchronous calls that give way to the main loop before every line, so *)
(* that several of them may fill the same table.                           *)
(*                                                                         *)
(* External: the editor, which rewrites the file as a whole, and the       *)
(* monitor of the file, which reports a change in the end.  A file is read *)
(* as a whole when its first line is.                                      *)
(***************************************************************************)
EXTENDS Integers, Sequences, Bags

CONSTANTS
  Contents,  \* what the file may hold: sequences of lines, each a set of hosts
  MaxChanges \* bound: changes of the file and of the plugin

VARIABLES
  config_file, \* the lines
  parses,      \* the calls of parse_ssh_config that have not ended: lines left
  hosts,       \* the table
  listening,   \* the plugin hears the monitor
  reported,    \* a change that the plugin has still to hear of
  overlapped,  \* history: hosts a call may have added after a later one began
  changes      \* counter

vars == <<config_file, parses, hosts, listening, reported, overlapped, changes>>

Call(read, lines) == [read |-> read, lines |-> lines]
Unread == Call(FALSE, <<>>)
HostsOf(lines) == UNION {lines[i] : i \in 1 .. Len(lines)}

ChangesBy(n) == changes + n <= MaxChanges /\ changes' = changes + n

\* Slip: the hosts of the last time stay.
BeginAgain ==
  /\ overlapped' = overlapped \cup UNION {HostsOf(p.lines) : p \in BagToSet(parses)}
  /\ parses' = parses (+) SetToBag({Unread})
  /\ UNCHANGED hosts

\* parse_ssh_config.begin(): what earlier calls have left to do may still
\* come into the emptied table.
Begin ==
  /\ hosts' = {}
  /\ overlapped' = UNION {HostsOf(p.lines) : p \in BagToSet(parses)}
  /\ parses' = parses (+) SetToBag({Unread})

Activate ==
  /\ ~listening
  /\ Begin
  /\ listening' = TRUE
  /\ UNCHANGED <<config_file, reported, changes>>

\* The calls go on.
Deactivate ==
  /\ listening
  /\ ChangesBy(1)
  /\ listening' = FALSE /\ reported' = FALSE
  /\ UNCHANGED <<config_file, parses, hosts, overlapped>>

HandleSshConfigUpdate ==
  /\ listening /\ reported
  /\ reported' = FALSE
  /\ Begin
  /\ UNCHANGED <<config_file, listening, changes>>

\* The first line comes with the whole file.
ReadFile ==
  /\ BagIn(Unread, parses)
  /\ parses' = (parses (-) SetToBag({Unread})) (+) SetToBag({Call(TRUE, config_file)})
  /\ UNCHANGED <<config_file, hosts, listening, reported, overlapped, changes>>

\* The next line, or the end of the file.
ReadLine(p) ==
  /\ BagIn(p, parses) /\ p.read
  /\ \/ /\ p.lines = <<>>
        /\ parses' = parses (-) SetToBag({p})
        /\ UNCHANGED hosts
     \/ /\ p.lines # <<>>
        /\ parses' = (parses (-) SetToBag({p})) (+) SetToBag({Call(TRUE, Tail(p.lines))})
        /\ hosts' = hosts \cup Head(p.lines)
  /\ UNCHANGED <<config_file, listening, reported, overlapped, changes>>

Edit(lines) ==
  /\ ChangesBy(1)
  /\ config_file' = lines
  /\ reported' = listening
  /\ UNCHANGED <<parses, hosts, listening, overlapped>>

Init ==
  /\ config_file = (CHOOSE lines \in Contents : lines # <<>>)
  /\ parses = EmptyBag /\ hosts = {} /\ listening = FALSE /\ reported = FALSE
  /\ overlapped = {} /\ changes = 0

ParseStep == ReadFile \/ \E p \in BagToSet(parses) : ReadLine(p)

Next ==
  \/ Activate \/ Deactivate \/ HandleSshConfigUpdate \/ ParseStep
  \/ \E lines \in Contents : Edit(lines)

-----------------------------------------------------------------------------
TypeOK ==
  /\ config_file \in Contents /\ listening \in BOOLEAN /\ reported \in BOOLEAN
  /\ hosts \cup overlapped \subseteq UNION {HostsOf(lines) : lines \in Contents}
  /\ changes \in 0 .. MaxChanges

\* Once the calls have ended, every host of the file is in the table, and no
\* other but what an earlier call added after the last one had begun.
HostsFollowFile ==
  listening /\ ~reported /\ parses = EmptyBag =>
    HostsOf(config_file) \subseteq hosts /\ hosts \subseteq HostsOf(config_file) \cup overlapped
=============================================================================
