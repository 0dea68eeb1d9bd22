------------------------------ MODULE Catalog ------------------------------
(***************************************************************************)
(* What the file commands of the shell promise while no disk is mounted: a *)
(* list of files and folders, in the order in which they were made, from   *)
(* which a command takes one away, to which it appends new ones, or of     *)
(* which it rewrites the text of one file; all others stay as they are.    *)
(***************************************************************************)
EXTENDS Naturals, Sequences

CONSTANTS Texts, Empty      \* what a file contains, and the empty text

VARIABLE entries            \* records with name, parent, folder and text

\* A new entry is empty, or a copy of a file.
AddOne ==
    /\ Len(entries') = Len(entries) + 1
    /\ LET e == entries'[Len(entries) + 1]
       IN  /\ entries' = Append(entries, e)
           /\ \/ e.text = Empty
              \/ /\ ~e.folder
                 /\ \E i \in DOMAIN entries :
                        ~entries[i].folder /\ e.text = entries[i].text

\* A folder and a file in it, or neither.
AddBoth ==
    /\ Len(entries') = Len(entries) + 2
    /\ LET d == entries'[Len(entries) + 1]
           f == entries'[Len(entries) + 2]
       IN  /\ entries' = Append(Append(entries, d), f)
           /\ d.folder /\ ~f.folder
           /\ f.parent = Append(d.parent, d.name)
           /\ d.text = Empty /\ f.text = Empty

Remove ==
    \E i \in DOMAIN entries :
        entries' = SubSeq(entries, 1, i - 1) \o SubSeq(entries, i + 1, Len(entries))

Rewrite ==
    \E i \in DOMAIN entries :
        /\ ~entries[i].folder
        /\ \E t \in Texts :
              entries' = [entries EXCEPT ![i] = [name   |-> entries[i].name,
                                                 parent |-> entries[i].parent,
                                                 folder |-> FALSE,
                                                 text   |-> t]]

Spec == [][AddOne \/ AddBoth \/ Remove \/ Rewrite]_entries
=============================================================================
