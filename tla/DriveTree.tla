------------------------------- MODULE DriveTree -------------------------------
(***************************************************************************)
(* The tree of a user's files as the page of the drive keeps it, flattened *)
(* into the sequence of all entries: those of one directory are in the     *)
(* order of its children.  Directories keep the names they were made with, *)
(* which are all different.                                                *)
(***************************************************************************)
EXTENDS Integers, Sequences, SequencesExt

CONSTANT Names  \* names of files

ASSUME NamesAssumption == Names # {}

Root == 0

\* A file or directory.  Ids come from Date.now(), at is the directory the
\* entry is in; the id of a directory stands for its name.
Entries == [id : Nat \ {Root}, dir : BOOLEAN, name : Names \cup Nat, at : Nat]

Trees == Seq(Entries)

DirsOf(tree) == {tree[i].id : i \in {j \in DOMAIN tree : tree[j].dir}} \cup {Root}
FilesOf(tree) == {tree[i].id : i \in {j \in DOMAIN tree : ~ tree[j].dir}}

\* An entry that cannot be reached from the root: the directories above it
\* form a circle.
Lost(tree, e) ==
    \E S \in SUBSET (DirsOf(tree) \ {Root}) :
       e.at \in S /\ \A i \in DOMAIN tree : tree[i].id \in S => tree[i].at \in S

\* The elements of a sequence at some places, in their order.
At(seq, places) ==
    LET upTo[n \in 0 .. Len(seq)] ==
            IF n = 0 THEN << >>
            ELSE IF n \in places THEN Append(upTo[n - 1], seq[n])
            ELSE upTo[n - 1]
    IN  upTo[Len(seq)]

\* The entries of the tree that JSON.stringify and the page can reach.
Reachable(tree) == At(tree, {i \in DOMAIN tree : ~ Lost(tree, tree[i])})

\* findIndex: the first entry in a directory with a name.
First(tree, at, name) ==
    CHOOSE i \in DOMAIN tree :
       /\ tree[i].at = at /\ tree[i].name = name
       /\ \A j \in 1 .. i - 1 : tree[j].at # at \/ tree[j].name # name

\* addEntry: to the end of a directory.
AddEntry(tree, e) == Append(tree, e)

\* A plausible mistake for RemoveEntry: the directory is not looked at.
RemoveEntryAnywhere(tree, at, name) ==
    RemoveAt(tree, CHOOSE i \in DOMAIN tree :
                      /\ tree[i].name = name
                      /\ \A j \in 1 .. i - 1 : tree[j].name # name)

\* removeEntry: the first entry of that name in that directory.
RemoveEntry(tree, at, name) == RemoveAt(tree, First(tree, at, name))

\* handleMove and handleRename: the entry is added in its new place, with its
\* new name, before it is removed from the old one.
Replace(tree, e, new) == Reachable(RemoveEntry(AddEntry(tree, new), e.at, e.name))

=============================================================================
