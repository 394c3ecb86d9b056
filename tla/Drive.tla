--------------------------------- MODULE Drive ---------------------------------
(***************************************************************************)
(* The files of one user: the pages of his browsers keep the whole tree of *)
(* names and post it after every change, while the contents are cells of   *)
(* their own.  Requests of a page are executed by the servers one by one   *)
(* but in any order; their answers are hardly looked at.                   *)
(***************************************************************************)
EXTENDS Session, DriveTree

CONSTANTS
    NoTree,      \* a page that has no tree yet
    NullTree,    \* the cell "files" holds "null"
    MaxEntries,  \* entries of a tree that fits in less than 10000 bytes
    MaxSteps,    \* bound: things the user does
    MaxOut,      \* bound: requests of a page on their way
    MaxFails     \* bound: calls of the store that fail

ASSUME BoundsAssumption == {MaxEntries, MaxSteps, MaxOut, MaxFails} \subseteq Nat
ASSUME NoTreeAssumption == {NoTree, NullTree} \cap Trees = {}

VARIABLES
    files,  \* the cell "files"
    cells,  \* the ids whose content is stored
    tree,   \* tree[p]: dirTree of page p
    out,    \* out[p]: requests of p on their way, in the order of their sending
    next,   \* the next Date.now()
    steps,  \* things the user has done
    fails,  \* calls that have failed
    \* The rest only observes.
    known,  \* known[p]: what page p must suppose to be stored
    kept,   \* the files the user has been shown and has not deleted
    seen,   \* pages that have shown the tree
    harm,   \* what has gone wrong
    causes  \* and what may have been the reason

driveVars == <<files, cells, tree, out, next, steps, fails,
               known, kept, seen, harm, causes>>
vars == <<driveVars, sessionVars>>

Harms == {"stale",     \* a tree was stored over one its page did not know
          "lost",      \* a call of the store failed
          "refused",   \* a change was refused, 401
          "namesake",  \* another entry of the same name was removed
          "inside",    \* a directory was moved into itself
          "big"}       \* a tree became null

Causes == {"overtaken",  \* a request overtook an earlier post of the tree
           "session"}    \* a login or a logout

Requests == [kind : {"list"}, cookie : Cookies]
            \cup [kind : {"tree"}, cookie : Cookies, tree : Trees,
                  base : Trees]
            \cup [kind : {"upload"}, cookie : Cookies, entry : Entries]
            \cup [kind : {"delete"}, cookie : Cookies, id : Nat]

\* Where the user starts: with a directory and a file, its content stored, and
\* some pages open that show them.
FirstTree == <<[id |-> 1, dir |-> TRUE, name |-> 1, at |-> Root],
               [id |-> 2, dir |-> FALSE, name |-> CHOOSE name \in Names : TRUE,
                at |-> Root]>>

Init ==
    /\ SessionInit
    /\ files = FirstTree
    /\ cells = {2} /\ kept = {2} /\ next = 3
    /\ seen \in SUBSET Pages
    /\ tree = [p \in Pages |-> IF p \in seen THEN files ELSE NoTree]
    /\ known = tree
    /\ out = [p \in Pages |-> << >>]
    /\ steps = 0 /\ fails = 0
    /\ harm = {} /\ causes = {}

-----------------------------------------------------------------------------
(* What the user does on a page.                                            *)

Does(p) == /\ steps < MaxSteps
           /\ steps' = steps + 1
           /\ Len(out[p]) < MaxOut

\* setDirTree: the page has a new tree, and its effect posts it, after the
\* requests in before.
Change(p, t, before) ==
    /\ tree' = [tree EXCEPT ![p] = t]
    /\ known' = [known EXCEPT ![p] = t]
    /\ out' = [out EXCEPT ![p] = @ \o before \o
                 <<[kind |-> "tree", cookie |-> jar[p], tree |-> t,
                    base |-> known[p]]>>]

\* What outlives the page: its posts of the tree and its deletions.
Lasting(requests) ==
    At(requests, {i \in DOMAIN requests : requests[i].kind \in {"tree", "delete"}})

\* A plausible mistake for Load: the effect posts the empty tree, too.
LoadPostsNothing(p) ==
    /\ Does(p)
    /\ tree' = [tree EXCEPT ![p] = NoTree]
    /\ known' = [known EXCEPT ![p] = NoTree]
    /\ out' = [out EXCEPT ![p] =
                 Lasting(@)
                 \o <<[kind |-> "list", cookie |-> jar[p]],
                      [kind |-> "tree", cookie |-> jar[p], tree |-> << >>,
                       base |-> << >>]>>]
    /\ UNCHANGED <<files, cells, next, fails, kept, seen, harm, causes, sessionVars>>

\* The page is opened or loaded again; what it was waiting for is forgotten (an
\* upload may still store a content, which nothing will refer to).
Load(p) ==
    /\ Does(p)
    /\ tree' = [tree EXCEPT ![p] = NoTree]
    /\ known' = [known EXCEPT ![p] = NoTree]
    /\ out' = [out EXCEPT ![p] =
                 Append(Lasting(@), [kind |-> "list", cookie |-> jar[p]])]
    /\ UNCHANGED <<files, cells, next, fails, kept, seen, harm, causes, sessionVars>>

\* handleUpload: the content is sent first, the entry added when it is answered.
Upload(p, name, at) ==
    /\ Does(p)
    /\ tree[p] # NoTree
    /\ out' = [out EXCEPT ![p] = Append(@,
                 [kind |-> "upload", cookie |-> jar[p],
                  entry |-> [id |-> next, dir |-> FALSE, name |-> name, at |-> at]])]
    /\ next' = next + 1
    /\ UNCHANGED <<files, cells, tree, fails, known, kept, seen, harm, causes,
                   sessionVars>>

\* handleCreateDirectory.
CreateDirectory(p, at) ==
    /\ Does(p)
    /\ Change(p, AddEntry(tree[p], [id |-> next, dir |-> TRUE, name |-> next,
                                    at |-> at]), << >>)
    /\ next' = next + 1
    /\ UNCHANGED <<files, cells, fails, kept, seen, harm, causes, sessionVars>>

HarmOfRemoval(p, i) ==
    IF First(tree[p], tree[p][i].at, tree[p][i].name) # i THEN {"namesake"} ELSE {}

\* handleDelete: the content is deleted by id and the entry removed by name,
\* neither waiting for the other.  A directory must be empty.
Delete(p, i) ==
    LET e == tree[p][i]
    IN  /\ Does(p)
        /\ e.dir => \A j \in DOMAIN tree[p] : tree[p][j].at # e.id
        /\ Change(p, RemoveEntry(tree[p], e.at, e.name),
                  IF e.dir THEN << >>
                  ELSE <<[kind |-> "delete", cookie |-> jar[p], id |-> e.id]>>)
        /\ kept' = kept \ {e.id}
        /\ harm' = harm \cup HarmOfRemoval(p, i)
        /\ UNCHANGED <<files, cells, next, fails, seen, causes, sessionVars>>

\* handleMove to the directory at, handleRename to name.
Relocate(p, i, new) ==
    LET e == tree[p][i]
        t == Replace(tree[p], e, new)
    IN  /\ Does(p)
        /\ Change(p, t, << >>)
        /\ harm' = harm \cup HarmOfRemoval(p, i)
                        \cup (IF Len(t) < Len(tree[p]) THEN {"inside"} ELSE {})
        /\ UNCHANGED <<files, cells, next, fails, kept, seen, causes, sessionVars>>

Move(p, i, at) == Relocate(p, i, [tree[p][i] EXCEPT !.at = at])

Rename(p, i, name) == /\ ~ tree[p][i].dir
                      /\ Relocate(p, i, [tree[p][i] EXCEPT !.name = name])

\* login and logout on any page; the tree of a page in another browser stays.
SessionStep(p) ==
    /\ \/ /\ Does(p)
          /\ \/ Login(p, TRUE) /\ UNCHANGED fails
             \/ Login(p, FALSE) /\ fails < MaxFails /\ fails' = fails + 1
       \/ Does(p) /\ StartLogout(p) /\ UNCHANGED fails
       \/ /\ \/ EndLogout(p, TRUE) /\ UNCHANGED fails
             \/ EndLogout(p, FALSE) /\ fails < MaxFails /\ fails' = fails + 1
          /\ UNCHANGED steps
    /\ causes' = causes \cup {"session"}
    /\ UNCHANGED <<files, cells, tree, out, next, known, kept, seen, harm>>

-----------------------------------------------------------------------------
(* What a server does with a request, and the page with the answer.         *)

\* Requests arrive over connections of their own: any one may be next.
Overtakes(p, i) == \E j \in 1 .. i - 1 : out[p][j].kind = "tree"

Arrives(p, i, kind) ==
    /\ out[p][i].kind = kind
    /\ causes' = IF kind \in {"list", "tree"} /\ Overtakes(p, i)
                 THEN causes \cup {"overtaken"} ELSE causes
    /\ UNCHANGED <<next, steps, sessionVars>>

\* The i-th request is done, and changes nothing on the page.
Gone(p, i) == out' = [out EXCEPT ![p] = RemoveAt(@, i)]

\* checkCookie fails, for want of the cookie or of the store: 401, which the
\* page does not look at.
Refuse(p, i) ==
    LET r == out[p][i]
    IN  /\ r.kind \in {"tree", "delete", "list"}
        /\ Arrives(p, i, r.kind)
        /\ Gone(p, i)
        /\ \/ ~ Authorised(r.cookie) /\ UNCHANGED fails
              /\ harm' = IF r.kind = "list" THEN harm ELSE harm \cup {"refused"}
           \/ Authorised(r.cookie) /\ fails < MaxFails /\ fails' = fails + 1
              /\ harm' = IF r.kind = "list" THEN harm ELSE harm \cup {"lost"}
        /\ UNCHANGED <<files, cells, tree, known, kept, seen>>

\* A plausible mistake for Shown: the answer "null" is kept as the tree.
ShownAsIs == files

\* The tree a page shows when it gets the cell.
Shown == IF files = NullTree THEN << >> ELSE files

\* The answer to request i makes the page show t, and post it at once.
Show(p, i, t) ==
    /\ tree' = [tree EXCEPT ![p] = t]
    /\ known' = [known EXCEPT ![p] = t]
    /\ out' = [out EXCEPT ![p] = Append(RemoveAt(@, i),
                 [kind |-> "tree", cookie |-> jar[p], tree |-> t, base |-> t])]
    /\ seen' = seen \cup {p}

\* getFiles: a failure of the store gives an empty tree.
List(p, i) ==
    /\ Arrives(p, i, "list")
    /\ Authorised(out[p][i].cookie)
    /\ \/ Show(p, i, Shown) /\ UNCHANGED <<fails, harm>>
       \/ /\ fails < MaxFails /\ fails' = fails + 1
          /\ Show(p, i, << >>)
          /\ harm' = harm \cup {"lost"}
    /\ UNCHANGED <<files, cells, kept>>

\* changeFiles: a body of 10000 bytes or more has become null.
ChangeFiles(p, i) ==
    LET r   == out[p][i]
        big == Len(r.tree) > MaxEntries
    IN  /\ Arrives(p, i, "tree")
        /\ Authorised(r.cookie)
        /\ Gone(p, i)
        /\ \/ /\ files' = IF big THEN NullTree ELSE r.tree
              /\ harm' = harm \cup (IF files # r.base THEN {"stale"} ELSE {})
                              \cup (IF big THEN {"big"} ELSE {})
              /\ UNCHANGED fails
           \/ /\ fails < MaxFails /\ fails' = fails + 1
              /\ harm' = harm \cup {"lost"}
              /\ UNCHANGED files
        /\ UNCHANGED <<cells, tree, known, kept, seen>>

\* uploadFile: whatever the answer, the page adds the entry and posts the tree.
UploadFile(p, i) ==
    LET r == out[p][i]
        t == AddEntry(tree[p], r.entry)
    IN  /\ Arrives(p, i, "upload")
        /\ \/ /\ Authorised(r.cookie)
              /\ cells' = cells \cup {r.entry.id}
              /\ UNCHANGED <<fails, harm>>
           \/ /\ ~ Authorised(r.cookie)
              /\ harm' = harm \cup {"refused"}
              /\ UNCHANGED <<cells, fails>>
           \/ /\ fails < MaxFails /\ fails' = fails + 1
              /\ harm' = harm \cup {"lost"}
              /\ UNCHANGED cells
        /\ tree' = [tree EXCEPT ![p] = t]
        /\ known' = [known EXCEPT ![p] = t]
        /\ out' = [out EXCEPT ![p] = Append(RemoveAt(@, i),
                     [kind |-> "tree", cookie |-> jar[p], tree |-> t,
                      base |-> known[p]])]
        /\ kept' = kept \cup {r.entry.id}
        /\ UNCHANGED <<files, seen>>

\* deleteFile.
DeleteFile(p, i) ==
    LET r == out[p][i]
    IN  /\ Arrives(p, i, "delete")
        /\ Authorised(r.cookie)
        /\ Gone(p, i)
        /\ \/ cells' = cells \ {r.id} /\ UNCHANGED <<fails, harm>>
           \/ /\ fails < MaxFails /\ fails' = fails + 1
              /\ harm' = harm \cup {"lost"}
              /\ UNCHANGED cells
        /\ UNCHANGED <<files, tree, known, kept, seen>>

Serve(p, i) == Refuse(p, i) \/ List(p, i) \/ ChangeFiles(p, i)
               \/ UploadFile(p, i) \/ DeleteFile(p, i)

Next ==
    \/ \E p \in Pages :
          \/ Load(p) \/ SessionStep(p)
          \/ \E i \in DOMAIN out[p] : Serve(p, i)
          \/ /\ tree[p] # NoTree
             /\ \E at \in DirsOf(tree[p]) :
                   \/ \E name \in Names : Upload(p, name, at)
                   \/ CreateDirectory(p, at)
                   \/ \E i \in DOMAIN tree[p] : Move(p, i, at)
          \/ /\ tree[p] # NoTree
             /\ \E i \in DOMAIN tree[p] :
                   \/ Delete(p, i)
                   \/ \E name \in Names : Rename(p, i, name)
    \/ Tick /\ UNCHANGED driveVars

Spec == Init /\ [][Next]_vars

-----------------------------------------------------------------------------
(* Properties.                                                              *)

\* Types of all variables.
TypeOK ==
    /\ SessionTypeOK
    /\ files \in Trees \cup {NullTree}
    /\ cells \subseteq Nat /\ kept \subseteq Nat
    /\ tree \in [Pages -> Trees \cup {NoTree}]
    /\ known \in [Pages -> Trees \cup {NoTree}]
    /\ out \in [Pages -> Seq(Requests)]
    /\ next \in Nat
    /\ steps \in 0 .. MaxSteps /\ fails \in 0 .. MaxFails
    /\ seen \subseteq Pages
    /\ harm \subseteq Harms /\ causes \subseteq Causes

\* Once nothing is on its way, a drive nothing has gone wrong with lists exactly
\* the files the user has been shown and has not deleted, each with its
\* content: wherever he has moved them, under whatever names, on however many
\* pages, and in whatever order contents and trees were stored.
KeepsFiles ==
    harm = {} /\ (\A p \in Pages : out[p] = << >>)
    => files # NullTree /\ FilesOf(files) = kept /\ kept \subseteq cells

\* A tree is stored over one its page did not know only if two pages have shown
\* the tree, or posts of one page have overtaken each other, or an earlier post
\* did not do what its page supposes; and a change is refused only after a
\* login or a logout.
HarmHasCause ==
    /\ "stale" \in harm => \/ \E p, q \in seen : p # q
                           \/ "overtaken" \in causes
                           \/ harm \cap {"lost", "refused", "big"} # {}
    /\ "refused" \in harm => "session" \in causes

=============================================================================
