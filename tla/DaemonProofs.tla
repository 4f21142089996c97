---------------------------- MODULE DaemonProofs ----------------------------
(***************************************************************************)
(* What holds of the daemon's parts for every value of the constants.      *)
(***************************************************************************)
EXTENDS MCDaemon, DaemonClientsProofs, TLAPS, FiniteSetTheorems, FunctionTheorems

----------------------------------------------------------------------------
(* A set of naturals has a least element: what stands in for induction in  *)
(* the proofs about recursive definitions and cardinalities.               *)
LEMMA LeastNat ==
  ASSUME NEW T \in SUBSET Nat, T # {}
  PROVE  \E m \in T : \A k \in T : m <= k
<1>1. IsWellFoundedOn(OpToRel(<, Nat), Nat)
  BY NatLessThanWellFounded
<1>2. PICK m \in T : \A k \in T : ~(<<k, m>> \in OpToRel(<, Nat))
  BY <1>1, WFMin
<1>3. m \in Nat /\ \A k \in T : k \in Nat /\ ~(k < m)
  BY <1>2 DEF OpToRel
<1> QED
  BY <1>3

----------------------------------------------------------------------------
(* One git command *)

(* The pipes stay at their end once they were found there, nothing is      *)
(* dropped while there is room, and the child is waited for by the return. *)
GitInv ==
  /\ GitTypeOK
  /\ gpc = "poll" <=> child # "reaped"
  /\ closed => AtEnd
  /\ truncated => kept = OutputMax
  /\ GitLeavesNothing

LEMMA GitInitInv == GitInit => GitInv
<1> SUFFICES ASSUME GitInit PROVE GitInv
  OBVIOUS
<1>1. {holds, closed, truncated} \subseteq BOOLEAN
  BY DEF GitInit
<1> QED
  BY <1>1, GitBounds DEF GitInit, GitInv, GitTypeOK, GitLeavesNothing

LEMMA GitStep == GitInv /\ [GitNext]_gitVars => GitInv'
<1> SUFFICES ASSUME GitInv, [GitNext]_gitVars
             PROVE  GitInv'
  OBVIOUS
<1> USE GitBounds DEF GitInv, GitTypeOK, GitLeavesNothing, AtEnd, HelperLives, GroupAlive
<1>1. CASE PollReads
  <2>1. {holds, closed, truncated}' \subseteq BOOLEAN
    BY <1>1 DEF PollReads, Extend
  <2>2. kept' \in 0 .. OutputMax /\ (truncated' => kept' = OutputMax)
    BY <1>1 DEF PollReads, Extend
  <2> QED
    BY <1>1, <2>1, <2>2 DEF PollReads
<1>2. CASE PollSees
  BY <1>2 DEF PollSees
<1>3. CASE TimesOut
  BY <1>3 DEF TimesOut, TerminateGitChild
<1>4. CASE PollFails
  BY <1>4 DEF PollFails, TerminateGitChild
<1>5. CASE ChildExits
  BY <1>5 DEF ChildExits
<1>6. ASSUME NEW h \in BOOLEAN, HelperStarts(h)
      PROVE  GitInv'
  BY <1>6 DEF HelperStarts
<1>7. CASE HelperLeaves
  BY <1>7 DEF HelperLeaves
<1>8. CASE HelperExits
  BY <1>8 DEF HelperExits
<1>9. CASE UNCHANGED gitVars
  BY <1>9 DEF gitVars
<1> QED
  BY <1>1, <1>2, <1>3, <1>4, <1>5, <1>6, <1>7, <1>8, <1>9 DEF GitNext

(* Whatever git, its helper and the deadline do, run_git_command_with_     *)
(* limits returns with its child reaped, a success with the pipes drained  *)
(* and any loss of output recorded, a failure with the process group dead, *)
(* for every deadline and every output limit.                              *)
THEOREM GitIsContained == GitSpec => [](GitTypeOK /\ GitLeavesNothing)
<1>1. GitInv => GitTypeOK /\ GitLeavesNothing
  BY DEF GitInv
<1> QED
  BY <1>1, GitInitInv, GitStep, PTL DEF GitSpec

----------------------------------------------------------------------------
(* The panels beside an unfinished upload *)

(* What a name can be: nothing, a file of the root, or a link to a name of *)
(* the first directory or out of the root.                                 *)
Objects == 1 .. (MaxUpload + 2)
TreeEntries ==
  {Absent} \cup {FileOf(o) : o \in Objects} \cup {LinkTo(m) : m \in Folder.d \cup {"out"}}

PanelInv ==
  /\ tree \in [Names -> TreeEntries]
  /\ upload \in [active : BOOLEAN, late : BOOLEAN]
  /\ uploads \in 0 .. MaxUpload
  /\ UnfinishedIsHidden

LEMMA PanelNames ==
  /\ Folder.d = {"a", "t", "p"} /\ Folder.e = {"l", "s"}
  /\ Names = {"a", "t", "p", "l", "s"} /\ DOMAIN Folder = {"d", "e"}
  /\ Folder["d"] = {"a", "t", "p"} /\ Folder["e"] = {"l", "s"}
BY DEF Folder, Names, Final, Temp

LEMMA EntryFacts ==
  ASSUME NEW x \in TreeEntries
  PROVE  /\ x.k \in {"none", "file", "link"}
         /\ x = Absent <=> x.k = "none"
         /\ x.k = "file" => x.obj \in Objects
         /\ x.k = "link" => x.to \in {"a", "t", "p", "out"}
BY PanelNames DEF TreeEntries, Absent, FileOf, LinkTo

(* canonicalize() and metadata(): a path leads out of the root only over a *)
(* link that says so, and a plain name leads to its own object.            *)
LEMMA ObjectFacts ==
  ASSUME NEW fs \in [Names -> TreeEntries], NEW n \in Names
  PROVE  /\ fs[n].k = "file" => Canonical(fs, n) = n /\ ObjectAt(fs, n) = {fs[n].obj}
         /\ fs[n].k = "none" => Canonical(fs, n) = "none" /\ ObjectAt(fs, n) = {}
         /\ Canonical(fs, n) \in Names \cup {"none", "out"}
         /\ Canonical(fs, n) = "out" <=> fs[n].k = "link" /\ fs[n].to = "out"
         /\ Canonical(fs, n) \in Names => /\ fs[Canonical(fs, n)].k = "file"
         /\ Outside \in ObjectAt(fs, n) => Canonical(fs, n) = "out"
<1>1. fs[n] \in TreeEntries /\ \A m \in {"a", "t", "p"} : fs[m] \in TreeEntries
  BY PanelNames
<1>2. CASE fs[n].k = "none"
  BY <1>2, PanelNames DEF Canonical, ObjectAt
<1>3. CASE fs[n].k = "file"
  <2>1. fs[n].obj \in Objects /\ Outside \notin Objects
    BY <1>1, <1>3, EntryFacts, SessionFilesBounds DEF Outside, Objects
  <2>2. Canonical(fs, n) = n
    BY <1>3 DEF Canonical
  <2>3. ObjectAt(fs, n) = {fs[n].obj}
    BY <2>2, PanelNames DEF ObjectAt
  <2> QED
    BY <1>3, <2>1, <2>2, <2>3, PanelNames
<1>4. CASE fs[n].k = "link"
  <2>1. fs[n].to \in {"a", "t", "p", "out"}
    BY <1>1, <1>4, EntryFacts
  <2>2. Canonical(fs, n) = IF fs[n].to = "out" \/ fs[fs[n].to].k = "file" THEN fs[n].to ELSE "none"
    BY <1>4 DEF Canonical
  <2>3. CASE fs[n].to = "out"
    BY <1>4, <2>2, <2>3, PanelNames
  <2>4. CASE fs[n].to # "out" /\ fs[fs[n].to].k = "file"
    <3>1. Canonical(fs, n) = fs[n].to /\ fs[n].to \in {"a", "t", "p"}
      BY <2>1, <2>2, <2>4
    <3>2. ObjectAt(fs, n) = {fs[fs[n].to].obj}
      BY <3>1 DEF ObjectAt
    <3>3. fs[fs[n].to].obj \in Objects /\ Outside \notin Objects
      BY <1>1, <2>4, <3>1, EntryFacts, SessionFilesBounds DEF Outside, Objects
    <3> QED
      BY <1>4, <2>4, <3>1, <3>2, <3>3, PanelNames
  <2>5. CASE fs[n].to # "out" /\ fs[fs[n].to].k # "file"
    <3>1. Canonical(fs, n) = "none"
      BY <2>2, <2>5
    <3> QED
      BY <1>4, <2>5, <3>1, PanelNames DEF ObjectAt
  <2> QED
    BY <2>3, <2>4, <2>5
<1> QED
  BY <1>1, <1>2, <1>3, <1>4, EntryFacts

(* Pruning removes at most the temporary of a late upload. *)
LEMMA PrunedFacts ==
  ASSUME PanelInv
  PROVE  /\ PrunedTree \in [Names -> TreeEntries]
         /\ \A n \in Names : PrunedTree[n] \in {tree[n], Absent}
         /\ PrunedUpload \in [active : BOOLEAN, late : BOOLEAN]
<1>1. Temp \in Names /\ Absent \in TreeEntries /\ tree \in [Names -> TreeEntries]
  BY PanelNames DEF Temp, TreeEntries, PanelInv
<1> QED
  BY <1>1 DEF PanelInv, PrunedTree, PrunedUpload, NoUpload

(* A request that touches only what the check lets through, under names    *)
(* that stay inside the root, touches neither the unfinished object nor a  *)
(* file outside.                                                           *)
LEMMA FilesAreSafe ==
  ASSUME PanelInv, NEW n \in Names, PrunedTree[n].k = "file", ~PathMatches(PrunedTree, n)
  PROVE  PrunedTree[n].obj # Outside /\ (PrunedUpload.active => PrunedTree[n].obj # uploads)
<1>1. ObjectAt(PrunedTree, n) = {PrunedTree[n].obj}
  BY PrunedFacts, ObjectFacts
<1>2. PrunedTree[n].obj \in Objects
  BY PrunedFacts, EntryFacts
<1> QED
  BY <1>1, <1>2, SessionFilesBounds DEF PathMatches, SameObject, Objects, Outside

LEMMA PanelStep == PanelInv /\ [PanelNext]_panelVars => PanelInv'
<1> SUFFICES ASSUME PanelInv, [PanelNext]_panelVars
             PROVE  PanelInv'
  OBVIOUS
<1> USE SessionFilesBounds
<1>0. /\ tree \in [Names -> TreeEntries] /\ PrunedTree \in [Names -> TreeEntries]
      /\ Absent \in TreeEntries /\ Temp \in Names /\ Final \in Names
      /\ \A o \in Objects : FileOf(o) \in TreeEntries
      /\ \A m \in Folder.d \cup {"out"} : LinkTo(m) \in TreeEntries
  BY PrunedFacts, PanelNames DEF PanelInv, TreeEntries, Temp, Final
<1>a. ASSUME NEW g \in BOOLEAN, Begin(g), tree' \in [Names -> TreeEntries],
             Outside \notin touched', PrunedUpload.active => uploads \notin touched'
      PROVE  PanelInv'
  BY <1>a, PrunedFacts DEF Begin, PanelInv, UnfinishedIsHidden
<1>b. ASSUME tree' \in [Names -> TreeEntries], touched' = {}, uploads' \in 0 .. MaxUpload,
             upload' \in [active : BOOLEAN, late : BOOLEAN]
      PROVE  PanelInv'
  BY <1>b DEF PanelInv, UnfinishedIsHidden
<1>c. ASSUME NEW n \in Names, n \notin {}, ~PathMatches(PrunedTree, n), PrunedUpload.active
      PROVE  uploads \notin ObjectAt(PrunedTree, n)
  BY <1>c DEF PathMatches, SameObject
<1>1. ASSUME NEW n \in Names, ReadFile(n)
      PROVE  PanelInv'
  <2> DEFINE c == Canonical(tree, n)
  <2>1. c \in Names /\ tree[c].k = "file"
    BY <1>0, <1>1, ObjectFacts DEF ReadFile, ResolveExisting, InsideRoot
  <2>2. PrunedTree[c].k \in {"file", "none"}
    BY <2>1, PrunedFacts DEF Absent
  <2>3. Outside \notin ObjectAt(PrunedTree, c)
    BY <1>0, <2>1, <2>2, ObjectFacts
  <2>4. Begin(FALSE) /\ tree' = PrunedTree /\ touched' \in {{}, ObjectAt(PrunedTree, c)}
        /\ (PathMatches(PrunedTree, c) => touched' = {})
    BY <1>1 DEF ReadFile
  <2> HIDE DEF c
  <2> QED
    BY <1>0, <1>a, <1>c, <2>1, <2>3, <2>4
<1>2. ASSUME NEW n \in Names, WriteFile(n)
      PROVE  PanelInv'
  <2>1. CASE PathMatches(PrunedTree, n)
    BY <1>0, <1>2, <1>a, <2>1 DEF WriteFile
  <2>2. CASE ~PathMatches(PrunedTree, n)
    <3>1. Outside \notin ObjectAt(PrunedTree, n)
      <4>1. PrunedTree[n] = Absent => ObjectAt(PrunedTree, n) = {}
        BY <1>0, ObjectFacts DEF Absent
      <4>2. tree[n].k = "none" \/ Canonical(tree, n) # "out"
        BY <1>2 DEF WriteFile, ResolveWritable, ResolveExisting, InsideRoot
      <4>3. PrunedTree[n] = tree[n] => Canonical(PrunedTree, n) # "out"
        BY <1>0, <4>2, ObjectFacts
      <4> QED
        BY <1>0, <4>1, <4>3, PrunedFacts, ObjectFacts
    <3>2. tree' \in [Names -> TreeEntries]
      <4>1. FileOf(New) \in TreeEntries
        BY <1>0 DEF New, Objects
      <4> QED
        BY <1>0, <1>2, <2>2, <4>1 DEF WriteFile
    <3>3. touched' = ObjectAt(PrunedTree, n) /\ Begin(FALSE)
      BY <1>2, <2>2 DEF WriteFile
    <3> QED
      BY <1>a, <1>c, <2>2, <3>1, <3>2, <3>3
  <2> QED
    BY <2>1, <2>2
<1>3. ASSUME NEW n \in Names, DeleteFile(n)
      PROVE  PanelInv'
  <2>1. CASE PathMatches(PrunedTree, n)
    BY <1>0, <1>3, <1>a, <2>1 DEF DeleteFile
  <2>2. CASE ~PathMatches(PrunedTree, n)
    <3>1. tree' \in [Names -> TreeEntries] /\ Begin(FALSE)
      BY <1>0, <1>3, <2>2 DEF DeleteFile
    <3>2. touched' = IF PrunedTree[n].k = "file" THEN {PrunedTree[n].obj} ELSE {}
      BY <1>3, <2>2 DEF DeleteFile
    <3> QED
      BY <1>a, <2>2, <3>1, <3>2, FilesAreSafe
  <2> QED
    BY <2>1, <2>2
<1>4. ASSUME NEW n \in Names, PrepareDownload(n)
      PROVE  PanelInv'
  BY <1>0, <1>4, <1>a DEF PrepareDownload
<1>5. ASSUME NEW dir \in DOMAIN Folder, ListFiles(dir)
      PROVE  PanelInv'
  <2>1. Folder[dir] \subseteq Names
    BY PanelNames
  <2>2. /\ tree' = PrunedTree /\ Begin(FALSE)
        /\ touched' = UNION {ObjectAt(PrunedTree, n) \ {Outside} :
                             n \in {x \in Folder[dir] : ~PathMatches(PrunedTree, x)}}
    BY <1>5 DEF ListFiles
  <2>3. Outside \notin touched' /\ (PrunedUpload.active => uploads \notin touched')
    BY <1>c, <2>1, <2>2
  <2> QED
    BY <1>0, <1>a, <2>2, <2>3
<1>6. ASSUME NEW g \in grants, ConsumeDownload(g)
      PROVE  PanelInv'
  BY <1>6 DEF ConsumeDownload, PanelInv, UnfinishedIsHidden
<1>d. ASSUME NEW s \in Names \cup DOMAIN Folder
      PROVE  Scope(s) \subseteq Names
  BY PanelNames DEF Scope
<1>e. ASSUME NEW s \in Names \cup DOMAIN Folder, ~GitScopeRefused(s)
      PROVE  LET files == Files(PrunedTree, Changed(PrunedTree, s))
             IN  Outside \notin files /\ (PrunedUpload.active => uploads \notin files)
  <2>1. \A n \in Changed(PrunedTree, s) : n \in Names
    BY <1>d DEF Changed
  <2>2. \A n \in Changed(PrunedTree, s) : ~PathMatches(PrunedTree, n)
    BY <1>e DEF GitScopeRefused, PathMatches
  <2> QED
    BY <2>1, <2>2, FilesAreSafe DEF Files
<1>7. ASSUME NEW s \in Names \cup DOMAIN Folder, GitReads(s)
      PROVE  PanelInv'
  <2>1. /\ Begin(FALSE) /\ tree' = PrunedTree
        /\ touched' = IF GitScopeRefused(s) THEN {}
                      ELSE Files(PrunedTree, Changed(PrunedTree, s))
    BY <1>7 DEF GitReads
  <2> QED
    BY <1>0, <1>a, <1>e, <2>1
<1>8. ASSUME NEW s \in Names \cup DOMAIN Folder, GitDiscards(s)
      PROVE  PanelInv'
  <2>1. /\ Begin(FALSE) /\ tree' \in [Names -> TreeEntries]
        /\ touched' = IF GitScopeRefused(s) THEN {}
                      ELSE Files(PrunedTree, Changed(PrunedTree, s))
    BY <1>0, <1>8 DEF GitDiscards
  <2> QED
    BY <1>a, <1>e, <2>1
<1>9. CASE GitSnapshot
  <2>1. /\ Begin(FALSE) /\ tree' = PrunedTree
        /\ touched' = Files(PrunedTree, {n \in Names : ~PathMatches(PrunedTree, n)})
    BY <1>9 DEF GitSnapshot
  <2>2. Outside \notin touched' /\ (PrunedUpload.active => uploads \notin touched')
    BY <2>1, FilesAreSafe DEF Files
  <2> QED
    BY <1>0, <1>a, <2>1, <2>2
<1>10. CASE UploadBegins
  <2>1. FileOf(uploads + 1) \in TreeEntries
    BY <1>0, <1>10 DEF UploadBegins, PanelInv, Objects
  <2> QED
    BY <1>0, <1>10, <1>b, <2>1 DEF UploadBegins, PanelInv
<1>11. CASE UploadPublishes
  BY <1>0, <1>11, <1>b DEF UploadPublishes, PanelInv, NoUpload
<1>12. CASE TimePasses
  BY <1>0, <1>12, <1>b DEF TimePasses, PanelInv
<1>13. ASSUME NEW n \in {x \in Folder.d : tree[x].k = "file"}, ShellLinks("l", tree[n])
       PROVE  PanelInv'
  BY <1>0, <1>13, <1>b, PanelNames DEF ShellLinks, PanelInv
<1>14. ASSUME NEW n \in Folder.d \cup {"out"}, ShellLinks("s", LinkTo(n))
       PROVE  PanelInv'
  BY <1>0, <1>14, <1>b, PanelNames DEF ShellLinks, PanelInv
<1>15. ASSUME NEW n \in Folder.e, ShellRemoves(n)
       PROVE  PanelInv'
  BY <1>0, <1>15, <1>b, PanelNames DEF ShellRemoves, PanelInv
<1>16. CASE UNCHANGED panelVars
  BY <1>16 DEF panelVars, PanelInv, UnfinishedIsHidden
<1> QED
  BY <1>1, <1>2, <1>3, <1>4, <1>5, <1>6, <1>7, <1>8, <1>9, <1>10, <1>11, <1>12, <1>13,
     <1>14, <1>15, <1>16 DEF PanelNext

LEMMA PanelInitInv == PanelInit => PanelInv
<1>1. FileOf(PlainPath) \in TreeEntries /\ Absent \in TreeEntries
  BY SessionFilesBounds DEF PlainPath, TreeEntries, Objects
<1> QED
  BY <1>1, SessionFilesBounds DEF PanelInit, PanelInv, UnfinishedIsHidden, NoUpload

(* The grants that are out never exceed their limit. *)
GrantsInv ==
  /\ granted \in 0 .. MaxGrant
  /\ IsFiniteSet(grants) /\ Cardinality(grants) \in 0 .. GrantMax

LEMMA FewerGrants ==
  ASSUME GrantsInv, NEW G \in SUBSET grants
  PROVE  IsFiniteSet(G) /\ Cardinality(G) \in 0 .. GrantMax
<1>1. IsFiniteSet(G) /\ Cardinality(G) <= Cardinality(grants)
  BY FS_Subset DEF GrantsInv
<1>2. Cardinality(G) \in Nat
  BY <1>1, FS_CardinalityType
<1> QED
  BY <1>1, <1>2, SessionFilesBounds DEF GrantsInv

LEMMA GrantsStep == GrantsInv /\ [PanelNext]_panelVars => GrantsInv'
<1> SUFFICES ASSUME GrantsInv, [PanelNext]_panelVars
             PROVE  GrantsInv'
  OBVIOUS
<1> USE SessionFilesBounds
<1>a. ASSUME UNCHANGED <<grants, granted>>
      PROVE  GrantsInv'
  BY <1>a DEF GrantsInv
<1>1. ASSUME NEW n \in Names, PrepareDownload(n)
      PROVE  GrantsInv'
  <2>1. FreshGrants \in SUBSET grants
    BY DEF FreshGrants
  <2>2. IsFiniteSet(FreshGrants) /\ Cardinality(FreshGrants) \in 0 .. GrantMax
    BY <2>1, FewerGrants
  <2>3. CASE grants' = FreshGrants /\ granted' = granted
    BY <2>2, <2>3 DEF GrantsInv
  <2>4. CASE /\ ~GrantsFull /\ granted' = granted + 1
             /\ grants' = FreshGrants \cup {[token |-> granted + 1, path |-> Canonical(tree, n),
                                             late |-> FALSE]}
    <3> DEFINE g == [token |-> granted + 1, path |-> Canonical(tree, n), late |-> FALSE]
    <3>1. Cardinality(FreshGrants) < GrantMax
      BY <2>2, <2>4 DEF GrantsFull
    <3>2. grants' = FreshGrants \cup {g}
      BY <2>4
    <3> HIDE DEF g
    <3>3. IsFiniteSet(grants') /\ Cardinality(grants') =
            IF g \in FreshGrants THEN Cardinality(FreshGrants) ELSE Cardinality(FreshGrants) + 1
      BY <2>2, <3>2, FS_AddElement
    <3>4. granted < MaxGrant
      BY <1>1 DEF PrepareDownload
    <3> QED
      BY <2>2, <2>4, <3>1, <3>3, <3>4 DEF GrantsInv
  <2> QED
    BY <1>1, <2>3, <2>4 DEF PrepareDownload
<1>2. ASSUME NEW g \in grants, ConsumeDownload(g)
      PROVE  GrantsInv'
  <2>1. grants' \in SUBSET grants /\ granted' = granted
    BY <1>2 DEF ConsumeDownload, FreshGrants
  <2> QED
    BY <2>1, FewerGrants DEF GrantsInv
<1>3. CASE TimePasses
  <2>1. CASE UNCHANGED grants
    BY <1>3, <2>1, <1>a DEF TimePasses
  <2>2. CASE grants' = {[g EXCEPT !.late = TRUE] : g \in grants}
    <3> DEFINE f == [g \in grants |-> [g EXCEPT !.late = TRUE]]
    <3>1. f \in Surjection(grants, grants')
      BY <2>2 DEF Surjection
    <3>2. IsFiniteSet(grants') /\ Cardinality(grants') <= Cardinality(grants)
      BY <3>1, FS_Surjection DEF GrantsInv
    <3>3. Cardinality(grants') \in Nat
      BY <3>2, FS_CardinalityType
    <3>4. granted' = granted
      BY <1>3 DEF TimePasses
    <3> QED
      BY <3>2, <3>3, <3>4 DEF GrantsInv
  <2> QED
    BY <1>3, <2>1, <2>2 DEF TimePasses
<1>4. CASE \E n \in Names : ReadFile(n) \/ WriteFile(n) \/ DeleteFile(n)
  BY <1>4, <1>a DEF ReadFile, WriteFile, DeleteFile, Begin
<1>5. CASE \E dir \in DOMAIN Folder : ListFiles(dir)
  BY <1>5, <1>a DEF ListFiles, Begin
<1>6. CASE \E s \in Names \cup DOMAIN Folder : GitReads(s) \/ GitDiscards(s)
  BY <1>6, <1>a DEF GitReads, GitDiscards, Begin
<1>7. CASE GitSnapshot
  BY <1>7, <1>a DEF GitSnapshot, Begin
<1>8. CASE UploadBegins \/ UploadPublishes
  BY <1>8, <1>a DEF UploadBegins, UploadPublishes
<1>9. CASE \E n, x : ShellLinks(n, x) \/ ShellRemoves(n)
  BY <1>9, <1>a DEF ShellLinks, ShellRemoves
<1>10. CASE UNCHANGED panelVars
  BY <1>10, <1>a DEF panelVars
<1> QED
  BY <1>1, <1>2, <1>3, <1>4, <1>5, <1>6, <1>7, <1>8, <1>9, <1>10 DEF PanelNext

LEMMA GrantsInitInv == PanelInit => GrantsInv
  BY FS_EmptySet, SessionFilesBounds DEF PanelInit, GrantsInv

(* Whatever links the user makes and whichever request comes, neither      *)
(* panel reaches the object of an unfinished upload or a file outside the  *)
(* session's root (path_matches_active_session_file_http_upload_target),   *)
(* and download grants stay within their limit, for every number of        *)
(* uploads and grants.                                                     *)
THEOREM PanelsHideUploads == PanelSpec => [](PanelTypeOK /\ UnfinishedIsHidden)
<1>1. PanelInv /\ GrantsInv => PanelTypeOK /\ UnfinishedIsHidden
  <2> SUFFICES ASSUME PanelInv, GrantsInv
               PROVE  PanelTypeOK /\ UnfinishedIsHidden
    OBVIOUS
  <2>1. \A n \in Names : tree[n].k \in {"none", "file", "link"}
    BY EntryFacts DEF PanelInv
  <2> QED
    BY <2>1, SessionFilesBounds DEF PanelInv, GrantsInv, PanelTypeOK
<1> QED
  BY <1>1, PanelInitInv, PanelStep, GrantsInitInv, GrantsStep, PTL DEF PanelSpec
-----------------------------------------------------------------------------
(* FileUpload.                                                             *)

(* An object exists only while the upload has been begun; while its commit *)
(* runs every chunk has been written; what is written or complete has its  *)
(* bytes; and an object that can be reached before it is whole has its     *)
(* record, from before it was made until it is gone.                       *)
UploadInv ==
  /\ UploadTypeOK
  /\ wrote \subseteq bytes
  /\ upc \in {"sync", "rename", "dirsync", "finish"} => wrote = Chunks
  /\ up = "complete" => bytes = Chunks
  /\ ~begun => upc \in {"idle", "down"} /\ up = "none"
  /\ ~begun \/ upc = "intent" => temp # "u" /\ target # "u" /\ ~alias
  /\ upc \in {"intent", "created"} => urec = "intent" /\ up = "none"
  /\ ~(temp = "u" /\ target = "u")
  /\ (temp = "u" \/ alias) /\ bytes # Chunks /\ ~leaked => urec # "none"
  /\ TargetIsWhole
  /\ AbortedIsGone

LEMMA UploadStep == UploadInv /\ [UploadNext]_uploadVars => UploadInv'
<1> SUFFICES ASSUME UploadInv, [UploadNext]_uploadVars
             PROVE  UploadInv'
  OBVIOUS
<1> USE DEF UploadInv, UploadTypeOK, TargetIsWhole, AbortedIsGone, uFiles, uMemory
<1>1. CASE UploadCreate
  BY <1>1 DEF UploadCreate, PrepareIntent
<1>2. CASE PrepareCreate
  BY <1>2 DEF PrepareCreate
<1>3. CASE PrepareIdentity
  BY <1>3 DEF PrepareIdentity, RemoveObject, TempAfter, RemainingLinks, IsObject
<1>4. CASE UploadChunk
  <2>1. PICK c \in Chunks : WriteChunk(c)
    BY <1>4 DEF UploadChunk
  <2>2. /\ upc = "idle" /\ up = "active"
        /\ UNCHANGED <<temp, target, alias, urec, up, published, begun, leaked>>
    BY <2>1 DEF WriteChunk
  <2>3. /\ bytes \subseteq bytes' /\ bytes' \subseteq Chunks
        /\ wrote' \subseteq bytes' /\ upc' \in {"idle", "sync"}
        /\ upc' = "sync" => wrote' = Chunks
    BY <2>1 DEF WriteChunk, WriteFiles, CompleteCoverage
  <2>4. bytes = Chunks => bytes' = Chunks
    BY <2>3
  <2>5. UploadTypeOK'
    BY <2>2, <2>3
  <2>6. TargetIsWhole' /\ AbortedIsGone'
    BY <2>2, <2>4
  <2>7. (temp = "u" \/ alias)' /\ bytes' # Chunks /\ ~leaked' => urec' # "none"
    BY <2>2, <2>4
  <2>8. wrote' \subseteq bytes' /\ upc' \in {"idle", "sync"}
    BY <2>3
  <2>9. ~begun' \/ upc' = "intent" => temp' # "u" /\ target' # "u" /\ ~alias'
    BY <2>2, <2>8
  <2>10. up' # "complete" /\ ~(temp' = "u" /\ target' = "u")
    BY <2>2
  <2>11. begun' = TRUE
    BY <2>2
  <2> QED
    BY <2>3, <2>5, <2>6, <2>7, <2>8, <2>9, <2>10, <2>11
<1>5. CASE CommitSync
  BY <1>5 DEF CommitSync
<1>6. CASE CommitRename
  BY <1>6 DEF CommitRename
<1>7. CASE CommitDirSync
  BY <1>7 DEF CommitDirSync
<1>8. CASE CommitFinish
  BY <1>8 DEF CommitFinish
<1>9. CASE UploadAbort
  BY <1>9 DEF UploadAbort, AbortUpload, RemoveObject, TempAfter, RemainingLinks, IsObject
<1>10. CASE PruneUpload
  BY <1>10 DEF PruneUpload, RemoveObject, TempAfter, RemainingLinks, IsObject
<1>11. CASE UploadCrash
  BY <1>11 DEF UploadCrash
<1>12. CASE UploadRecover
  BY <1>12 DEF UploadRecover, IsObject
<1>13. CASE UserTouches
  <2>1. UNCHANGED <<bytes, urec, uMemory, upc, begun, leaked>> /\ begun
    BY <1>13 DEF UserTouches
  <2>2. CASE temp = "u" /\ temp' \in {"none", "x"} /\ UNCHANGED <<target, alias>>
    BY <2>1, <2>2
  <2>3. CASE target' \in {"none", "x"} /\ UNCHANGED <<temp, alias>>
    BY <2>1, <2>3
  <2>4. CASE alias' = FALSE /\ UNCHANGED <<temp, target>>
    <3>1. UploadTypeOK'
      BY ZenonT(60), <2>1, <2>4
    <3>2. (temp = "u" \/ alias)' /\ bytes' # Chunks /\ ~leaked' => urec' # "none"
      BY <2>1, <2>4
    <3>3. TargetIsWhole' /\ AbortedIsGone'
      BY <2>1, <2>4
    <3> QED
      BY <2>1, <2>4, <3>1, <3>2, <3>3
  <2>5. CASE ~alias /\ alias' = TRUE /\ "u" \in {temp, target} /\ UNCHANGED <<temp, target>>
    BY <2>1, <2>5
  <2> QED
    BY <1>13, <2>2, <2>3, <2>4, <2>5 DEF UserTouches
<1>14. CASE UNCHANGED uploadVars
  BY <1>14 DEF uploadVars
<1> QED
  BY <1>1, <1>2, <1>3, <1>4, <1>5, <1>6, <1>7, <1>8, <1>9, <1>10, <1>11, <1>12, <1>13,
     <1>14 DEF UploadNext

(* Whatever fails, crashes, is sent again or is linked by the user, a file *)
(* appears under its final name only whole, an unfinished object is on     *)
(* record until it is gone, and an aborted upload has left nothing behind  *)
(* (commit_session_file_http_upload_write and the clean-ups), for every    *)
(* set of chunks.                                                          *)
THEOREM UploadIsWhole ==
  UploadSpec => [](UploadTypeOK /\ TargetIsWhole /\ UnfinishedIsRemembered /\ AbortedIsGone)
<1>1. UploadInit => UploadInv
  BY DEF UploadInit, UploadInv, UploadTypeOK, TargetIsWhole, AbortedIsGone
<1>2. UploadInv => UploadTypeOK /\ TargetIsWhole /\ UnfinishedIsRemembered /\ AbortedIsGone
  BY DEF UploadInv, UnfinishedIsRemembered
<1> QED
  BY <1>1, <1>2, UploadStep, PTL DEF UploadSpec
-----------------------------------------------------------------------------
(* UploadRanges.                                                           *)

(* The least and the greatest of some offsets are among them. *)
LEMMA MaxMin ==
  ASSUME NEW S \in SUBSET Offsets, S # {}
  PROVE  /\ Max(S) \in S /\ \A x \in S : x <= Max(S)
         /\ Min(S) \in S /\ \A x \in S : Min(S) <= x
<1> USE UploadRangesAssumption DEF Offsets
<1>1. \E m \in S : \A x \in S : m <= x
  BY LeastNat
<1>2. \E m \in S : \A x \in S : x <= m
  <2> DEFINE T == {FileSize - x : x \in S}
  <2>1. \A x \in S : FileSize - x \in Nat
    OBVIOUS
  <2>5. T \in SUBSET Nat /\ T # {}
    BY <2>1
  <2>2. PICK n \in T : \A k \in T : n <= k
    BY <2>5, LeastNat
  <2>3. PICK m \in S : n = FileSize - m
    BY <2>2
  <2>4. \A x \in S : FileSize - m <= FileSize - x
    BY <2>2, <2>3
  <2> QED
    BY <2>3, <2>4
<1> QED
  BY <1>1, <1>2 DEF Max, Min

(* What a sequence of chunks can make of a map of ranges. *)
RangeMap(m) ==
  /\ DOMAIN m \subseteq Offsets
  /\ \A o \in DOMAIN m : m[o] \in Nat /\ m[o] > 0 /\ o + m[o] <= FileSize
  /\ \A p, q \in DOMAIN m : p < q => p + m[p] <= q

(* The range found by range(..=k).next_back() is the only one that can     *)
(* hold the byte k.                                                        *)
LEMMA FloorOwns ==
  ASSUME NEW m, RangeMap(m), NEW k \in Offsets
  PROVE  /\ Below(m, k) # {} =>
              /\ Floor(m, k) \in DOMAIN m /\ Floor(m, k) <= k
              /\ \A o \in DOMAIN m : o < Floor(m, k) => o + m[o] <= k
              /\ \A o \in DOMAIN m : o <= k => o <= Floor(m, k)
         /\ \A o \in DOMAIN m : o <= k => Below(m, k) # {}
<1> USE UploadRangesAssumption DEF RangeMap, Offsets
<1>1. Below(m, k) \in SUBSET Offsets
  BY DEF Below
<1>2. ASSUME Below(m, k) # {}
      PROVE  /\ Floor(m, k) \in DOMAIN m /\ Floor(m, k) <= k
             /\ \A o \in DOMAIN m : o < Floor(m, k) => o + m[o] <= k
             /\ \A o \in DOMAIN m : o <= k => o <= Floor(m, k)
  <2>1. Floor(m, k) \in Below(m, k) /\ \A x \in Below(m, k) : x <= Floor(m, k)
    BY <1>1, <1>2, MaxMin DEF Floor
  <2> QED
    BY <2>1 DEF Below
<1>3. \A o \in DOMAIN m : o <= k => Below(m, k) # {}
  BY DEF Below
<1> QED
  BY <1>2, <1>3

(* range_overlaps finds a range that has a byte in common. *)
LEMMA OverlapsIsExact ==
  ASSUME NEW m, RangeMap(m), NEW start \in Offsets, NEW end \in Offsets, start < end
  PROVE  Overlaps(m, start, end) <=> \E o \in DOMAIN m : o < end /\ start < o + m[o]
<1> USE UploadRangesAssumption DEF RangeMap, Offsets
<1> DEFINE f == Floor(m, start)
           S == From(m, start)
<1>1. S # {} => Min(S) \in S /\ \A x \in S : Min(S) <= x
  <2>1. S \in SUBSET Offsets
    BY DEF From
  <2> QED
    BY <2>1, MaxMin
<1>2. ASSUME Overlaps(m, start, end)
      PROVE  \E o \in DOMAIN m : o < end /\ start < o + m[o]
  <2>1. CASE Below(m, start) # {} /\ f + m[f] > start
    BY <2>1, FloorOwns
  <2>2. CASE S # {} /\ Min(S) < end
    <3>1. Min(S) \in DOMAIN m /\ Min(S) >= start
      BY <1>1, <2>2 DEF From
    <3> QED
      BY <2>2, <3>1
  <2> QED
    BY <1>2, <2>1, <2>2 DEF Overlaps
<1>3. ASSUME NEW o \in DOMAIN m, o < end, start < o + m[o]
      PROVE  Overlaps(m, start, end)
  <2>1. CASE o <= start
    <3>1. Below(m, start) # {} /\ f \in DOMAIN m /\ o <= f /\ (o < f => o + m[o] <= start)
      BY <2>1, FloorOwns
    <3>2. f = o
      BY <1>3, <3>1
    <3> QED
      BY <1>3, <3>1, <3>2 DEF Overlaps
  <2>2. CASE o > start
    <3>1. o \in S
      BY <2>2 DEF From
    <3>2. Min(S) <= o /\ Min(S) \in DOMAIN m
      BY <1>1, <3>1 DEF From
    <3>3. Min(S) < end
      BY <1>3, <3>2
    <3> QED
      BY <3>1, <3>3 DEF Overlaps
  <2> QED
    BY <2>1, <2>2
<1> QED
  BY <1>2, <1>3

(* A byte is there when a range holds it. *)
LEMMA BytesFacts ==
  ASSUME NEW m, RangeMap(m), NEW b \in Int
  PROVE  b \in BytesOf(m) <=> \E o \in DOMAIN m : o <= b /\ b < o + m[o]
<1>1. \A o \in DOMAIN m : b \in o..(o + m[o] - 1) <=> o <= b /\ b < o + m[o]
  BY UploadRangesAssumption DEF RangeMap, Offsets
<1> QED
  BY <1>1 DEF BytesOf

(* What range_is_fully_covered is to find: the bytes from c to the end. *)
CoveredFrom(m, c, end) == c >= end \/ \A b \in c..(end - 1) : b \in BytesOf(m)

(* The step of range_is_fully_covered's loop. *)
LEMMA CursorStep ==
  ASSUME NEW m, RangeMap(m), NEW c \in Offsets, NEW end \in Offsets, c < end
  PROVE  CoveredFrom(m, c, end) <=>
           /\ Below(m, c) # {}
           /\ Floor(m, c) + m[Floor(m, c)] > c
           /\ CoveredFrom(m, Floor(m, c) + m[Floor(m, c)], end)
<1> USE UploadRangesAssumption DEF RangeMap, Offsets
<1> DEFINE f == Floor(m, c)
           e == f + m[f]
<1>1. ASSUME CoveredFrom(m, c, end)
      PROVE  Below(m, c) # {} /\ e > c /\ CoveredFrom(m, e, end)
  <2>1. c \in BytesOf(m)
    BY <1>1 DEF CoveredFrom
  <2>2. PICK o \in DOMAIN m : o <= c /\ c < o + m[o]
    BY <2>1, BytesFacts
  <2>3. Below(m, c) # {} /\ f \in DOMAIN m /\ o <= f /\ (o < f => o + m[o] <= c)
    BY <2>2, FloorOwns
  <2>4. f = o
    BY <2>2, <2>3
  <2>5. e > c /\ e \in Nat
    BY <2>2, <2>3, <2>4
  <2> QED
    BY <1>1, <2>3, <2>5 DEF CoveredFrom
<1>2. ASSUME Below(m, c) # {}, e > c, CoveredFrom(m, e, end)
      PROVE  CoveredFrom(m, c, end)
  <2>1. f \in DOMAIN m /\ f <= c /\ e \in Nat
    BY <1>2, FloorOwns
  <2>2. ASSUME NEW b \in c..(end - 1)
        PROVE  b \in BytesOf(m)
    <3>1. CASE b < e
      BY <2>1, <3>1, BytesFacts
    <3>2. CASE b >= e
      BY <1>2, <2>1, <3>2 DEF CoveredFrom
    <3> QED
      BY <2>1, <3>1, <3>2
  <2> QED
    BY <2>2 DEF CoveredFrom
<1> QED
  BY <1>1, <1>2

(* range_is_fully_covered computes what it says, by induction on what is   *)
(* left of the range.                                                      *)
LEMMA FullyCoveredIsExact ==
  ASSUME NEW m, RangeMap(m), NEW start \in Offsets, NEW end \in Offsets
  PROVE  FullyCovered(m, start, end) <=> CoveredFrom(m, start, end)
<1> USE UploadRangesAssumption
<1> DEFINE D == 0..(2 * FileSize)
           Step(g) == [cursor \in D |->
              \/ cursor >= end
              \/ /\ Below(m, cursor) # {}
                 /\ LET o == Floor(m, cursor)
                    IN  /\ o + m[o] > cursor
                        /\ g[o + m[o]]]
           h == [c \in D |-> CoveredFrom(m, c, end)]
           F == CHOOSE g : g = Step(g)
<1>0. FullyCovered(m, start, end) = F[start]
  BY DEF FullyCovered
<1>1. h = Step(h)
  <2>1. ASSUME NEW c \in D
        PROVE  CoveredFrom(m, c, end) <=>
                 \/ c >= end
                 \/ /\ Below(m, c) # {}
                    /\ Floor(m, c) + m[Floor(m, c)] > c
                    /\ h[Floor(m, c) + m[Floor(m, c)]]
    <3>1. CASE c >= end
      BY <3>1 DEF CoveredFrom
    <3>2. CASE ~(c >= end)
      <4>1. c \in Offsets /\ c < end
        BY <3>2 DEF Offsets
      <4>2. Below(m, c) # {} => Floor(m, c) + m[Floor(m, c)] \in D
        BY <4>1, FloorOwns DEF RangeMap, Offsets
      <4> QED
        BY <3>2, <4>1, <4>2, CursorStep
    <3> QED
      BY <3>1, <3>2
  <2>2. ASSUME NEW c \in D
        PROVE  h[c] = Step(h)[c]
    <3>1. h[c] <=> Step(h)[c]
      BY <2>1
    <3>2. h[c] \in BOOLEAN
      BY DEF CoveredFrom
    <3>3. Step(h)[c] \in BOOLEAN
      OBVIOUS
    <3> QED
      BY <3>1, <3>2, <3>3
  <2> QED
    BY <2>2
<1>2. F = Step(F)
  BY <1>1
<1> HIDE DEF F, h
<1>3. ASSUME NEW c \in D, ~(F[c] <=> CoveredFrom(m, c, end))
      PROVE  FALSE
  <2> DEFINE W == {y \in D : ~(F[y] <=> CoveredFrom(m, y, end))}
             T == {2 * FileSize - x : x \in W}
  <2>0. c \in W /\ \A x \in W : 2 * FileSize - x \in Nat
    BY <1>3
  <2>1. T \in SUBSET Nat /\ T # {}
    BY <2>0
  <2>2. PICK n \in T : \A k \in T : n <= k
    BY <2>1, LeastNat
  <2>3. PICK z \in D : n = 2 * FileSize - z /\ ~(F[z] <=> CoveredFrom(m, z, end))
    BY <2>2
  <2>4. ASSUME NEW y \in D, y > z
        PROVE  F[y] <=> CoveredFrom(m, y, end)
    <3>1. y \in W => 2 * FileSize - y \in T
      OBVIOUS
    <3>2. ~(n <= 2 * FileSize - y)
      BY <2>3, <2>4
    <3> QED
      BY <2>2, <3>1, <3>2
  <2>5. F[z] <=> ( \/ z >= end
                \/ /\ Below(m, z) # {}
                   /\ Floor(m, z) + m[Floor(m, z)] > z
                   /\ F[Floor(m, z) + m[Floor(m, z)]])
    BY <1>2, <2>3
  <2>6. CASE z >= end
    BY <2>3, <2>5, <2>6 DEF CoveredFrom
  <2>7. CASE ~(z >= end)
    <3>1. z \in Offsets /\ z < end
      BY <2>7 DEF Offsets
    <3>2. Below(m, z) # {} => Floor(m, z) + m[Floor(m, z)] \in D
      BY <3>1, FloorOwns DEF RangeMap, Offsets
    <3> QED
      BY <2>3, <2>4, <2>5, <2>7, <3>1, <3>2, CursorStep
  <2> QED
    BY <2>6, <2>7
<1>4. start \in D
  BY DEF Offsets
<1> QED
  BY <1>0, <1>3, <1>4

(* has_complete_coverage: ranges that follow one another to the end leave  *)
(* no byte out; the least range after a missing byte would have no         *)
(* predecessor.                                                            *)
LEMMA CompleteIsExact ==
  ASSUME RangeMap(written)
  PROVE  HasCompleteCoverage <=> BytesOf(written) = 0..(FileSize - 1)
<1> USE UploadRangesAssumption DEF RangeMap, Offsets
<1>0. BytesOf(written) \subseteq 0..(FileSize - 1)
  <2>1. \A o \in DOMAIN written : o..(o + written[o] - 1) \subseteq 0..(FileSize - 1)
    OBVIOUS
  <2> QED
    BY <2>1 DEF BytesOf
<1>1. ASSUME HasCompleteCoverage, FileSize # 0, NEW b \in 0..(FileSize - 1)
      PROVE  b \in BytesOf(written)
  <2> SUFFICES ASSUME b \notin BytesOf(written)
               PROVE  FALSE
    OBVIOUS
  <2>1. \A o \in DOMAIN written : o > b \/ o + written[o] <= b
    BY BytesFacts
  <2> DEFINE T == {o \in DOMAIN written : o > b}
  <2>2. T # {}
    BY <1>1, <2>1 DEF HasCompleteCoverage
  <2>3. PICK o \in T : \A k \in T : o <= k
    <3>1. T \in SUBSET Nat
      OBVIOUS
    <3> QED
      BY <2>2, <3>1, LeastNat
  <2>4. o \in DOMAIN written /\ o > b /\ o # 0
    BY <2>3
  <2>5. PICK q \in DOMAIN written : q + written[q] = o /\ q < o
    BY <1>1, <2>4 DEF HasCompleteCoverage
  <2>6. q <= b
    BY <2>3, <2>5
  <2> QED
    BY <2>1, <2>4, <2>5, <2>6
<1>2. ASSUME BytesOf(written) = 0..(FileSize - 1), FileSize # 0
      PROVE  HasCompleteCoverage
  <2>1. \A b \in 0..(FileSize - 1) : \E o \in DOMAIN written : o <= b /\ b < o + written[o]
    BY SMTT(30), <1>2, BytesFacts
  <2>2. 0 \in DOMAIN written
    BY <1>2, <2>1
  <2>3. \E o \in DOMAIN written : o + written[o] = FileSize
    <3>1. FileSize - 1 \in 0..(FileSize - 1)
      BY <1>2
    <3> QED
      BY <2>1, <3>1
  <2>4. ASSUME NEW o \in DOMAIN written, o # 0
        PROVE  \E q \in DOMAIN written : q + written[q] = o /\ q < o
    <3>1. o - 1 \in 0..(FileSize - 1)
      BY <2>4
    <3> QED
      BY <2>1, <3>1
  <2> QED
    BY <2>2, <2>3, <2>4 DEF HasCompleteCoverage
<1>3. FileSize = 0 => HasCompleteCoverage /\ BytesOf(written) = 0..(FileSize - 1)
  BY <1>0 DEF HasCompleteCoverage
<1> QED
  BY <1>0, <1>1, <1>2, <1>3

(* Written and reserved ranges share no byte. *)
RangesInv ==
  /\ RangeMap(written) /\ RangeMap(inflight)
  /\ \A o \in DOMAIN written, q \in DOMAIN inflight :
        o + written[o] <= q \/ q + inflight[q] <= o

(* A range clear of the others can be added. *)
LEMMA InsertedFits ==
  ASSUME NEW m, RangeMap(m), NEW start \in Offsets, NEW len \in Nat,
         len > 0, start + len <= FileSize,
         \A o \in DOMAIN m : o + m[o] <= start \/ start + len <= o
  PROVE  RangeMap(Inserted(m, start, len))
BY UploadRangesAssumption DEF RangeMap, Offsets, Inserted

LEMMA RangesStep == RangesInv /\ [RangesNext]_rangeVars => RangesInv'
<1> SUFFICES ASSUME RangesInv, [RangesNext]_rangeVars
             PROVE  RangesInv'
  OBVIOUS
<1> USE UploadRangesAssumption DEF RangesInv
<1>1. ASSUME NEW start \in Offsets, NEW len \in Offsets, Reserve(start, len)
      PROVE  RangesInv'
  <2>1. /\ len > 0 /\ start + len \in Offsets /\ start < start + len /\ len \in Nat
        /\ ~Overlaps(written, start, start + len) /\ ~Overlaps(inflight, start, start + len)
        /\ inflight' = Inserted(inflight, start, len) /\ written' = written
    BY <1>1 DEF Reserve, Offsets
  <2>2. ASSUME NEW m, RangeMap(m), ~Overlaps(m, start, start + len)
        PROVE  \A o \in DOMAIN m : o + m[o] <= start \/ start + len <= o
    BY <2>1, <2>2, OverlapsIsExact DEF RangeMap, Offsets
  <2>3. RangeMap(inflight)'
    BY <2>1, <2>2, InsertedFits DEF Offsets
  <2>4. ASSUME NEW o \in DOMAIN written, NEW q \in DOMAIN inflight'
        PROVE  o + written[o] <= q \/ q + inflight'[q] <= o
    BY <2>1, <2>2, <2>4 DEF Inserted
  <2> QED
    BY <2>1, <2>3, <2>4
<1>2. ASSUME NEW start \in Offsets, NEW ok \in BOOLEAN, Finish(start, ok)
      PROVE  RangesInv'
  <2>1. /\ start \in DOMAIN inflight
        /\ inflight' = Removed(inflight, start)
        /\ written' \in {written, Inserted(written, start, inflight[start])}
    BY <1>2 DEF Finish
  <2>2. RangeMap(inflight')
    BY <2>1 DEF RangeMap, Removed
  <2>3. RangeMap(Inserted(written, start, inflight[start]))
    BY <2>1, InsertedFits DEF RangeMap
  <2>4. CASE written' = written
    BY <2>1, <2>2, <2>4 DEF Removed
  <2>5. CASE written' = Inserted(written, start, inflight[start])
    <3>1. ASSUME NEW o \in DOMAIN written', NEW q \in DOMAIN inflight'
          PROVE  o + written'[o] <= q \/ q + inflight'[q] <= o
      <4>1. q \in DOMAIN inflight /\ q # start /\ inflight'[q] = inflight[q]
        BY <2>1, <3>1 DEF Removed
      <4>2. CASE o = start
        BY <2>1, <2>5, <4>1, <4>2 DEF Inserted, RangeMap, Offsets
      <4>3. CASE o # start
        BY <2>5, <3>1, <4>1, <4>3 DEF Inserted
      <4> QED
        BY <4>2, <4>3
    <3> QED
      BY <2>2, <2>3, <2>5, <3>1
  <2> QED
    BY <2>1, <2>4, <2>5
<1>3. CASE UNCHANGED rangeVars
  BY <1>3 DEF rangeVars
<1> QED
  BY <1>1, <1>2, <1>3 DEF RangesNext

(* Ranges that share no byte make the map algorithms exact. *)
LEMMA RangesInvIsExact == RangesInv => RangesTypeOK /\ RangesAreExact
<1> SUFFICES ASSUME RangesInv
             PROVE  RangesTypeOK /\ RangesAreExact
  OBVIOUS
<1> USE UploadRangesAssumption
<1>0. RangeMap(written) /\ RangeMap(inflight)
  BY DEF RangesInv
<1>1. BytesOf(written) \cap BytesOf(inflight) = {}
  <2>1. ASSUME NEW b \in BytesOf(written), b \in BytesOf(inflight)
        PROVE  FALSE
    <3>1. b \in Int
      BY <1>0, <2>1 DEF BytesOf, RangeMap, Offsets
    <3>2. PICK o \in DOMAIN written : o <= b /\ b < o + written[o]
      BY <1>0, <3>1, BytesFacts
    <3>3. PICK q \in DOMAIN inflight : q <= b /\ b < q + inflight[q]
      BY <1>0, <2>1, <3>1, BytesFacts
    <3> QED
      BY <1>0, <3>1, <3>2, <3>3 DEF RangesInv, RangeMap, Offsets
  <2> QED
    BY <2>1
<1>2. \A m \in {written, inflight} : \A p, q \in DOMAIN m : p < q => p + m[p] <= q
  BY <1>0 DEF RangeMap
<1>3. ASSUME NEW start \in Offsets, NEW end \in Offsets, start < end
      PROVE  /\ FullyCovered(written, start, end) <=> start..(end - 1) \subseteq BytesOf(written)
             /\ Overlaps(written, start, end) <=> (start..(end - 1)) \cap BytesOf(written) # {}
  <2>1. CoveredFrom(written, start, end) <=> start..(end - 1) \subseteq BytesOf(written)
    BY <1>3 DEF CoveredFrom, Offsets
  <2>2. ASSUME NEW o \in DOMAIN written, o < end, start < o + written[o]
        PROVE  \E b \in start..(end - 1) : b \in BytesOf(written)
    <3>1. CASE o <= start
      BY <1>0, <1>3, <2>2, <3>1, BytesFacts DEF Offsets
    <3>2. CASE o > start
      BY <1>0, <2>2, <3>2, BytesFacts DEF RangeMap, Offsets
    <3> QED
      BY <1>0, <3>1, <3>2 DEF RangeMap, Offsets
  <2>3. ASSUME NEW b \in start..(end - 1), b \in BytesOf(written)
        PROVE  \E o \in DOMAIN written : o < end /\ start < o + written[o]
    <3>1. PICK o \in DOMAIN written : o <= b /\ b < o + written[o]
      BY <1>0, <2>3, BytesFacts
    <3> QED
      BY <1>0, <3>1 DEF RangeMap, Offsets
  <2>4. Overlaps(written, start, end) <=> \E o \in DOMAIN written : o < end /\ start < o + written[o]
    BY <1>0, <1>3, OverlapsIsExact
  <2>5. FullyCovered(written, start, end) <=> CoveredFrom(written, start, end)
    BY <1>0, FullyCoveredIsExact
  <2> QED
    BY <2>1, <2>2, <2>3, <2>4, <2>5
<1>4. RangesTypeOK
  BY <1>0 DEF RangesTypeOK, RangeMap
<1> QED
  BY <1>0, <1>1, <1>2, <1>3, <1>4, CompleteIsExact DEF RangesAreExact

(* The ranges of an upload are exact, for every file size: no byte is      *)
(* written or reserved twice, a chunk is found covered or overlapping      *)
(* exactly when its bytes are, and the upload complete exactly when every  *)
(* byte is there (range_is_fully_covered, range_overlaps,                  *)
(* has_complete_coverage).                                                 *)
THEOREM RangesCoverOnce == RangesSpec => [](RangesTypeOK /\ RangesAreExact)
<1>1. RangesInit => RangesInv
  BY DEF RangesInit, RangesInv, RangeMap
<1> QED
  BY <1>1, RangesStep, RangesInvIsExact, PTL DEF RangesSpec

(* An upload is exact, for every set of chunks and every file size: both   *)
(* halves of the model together.                                           *)
THEOREM UploadExact == UploadSpec /\ RangesSpec => []UploadIsExact
BY UploadIsWhole, RangesCoverOnce, PTL DEF UploadIsExact
-----------------------------------------------------------------------------
(* DeviceAuth.                                                             *)

(* What is left of a set when its k least elements go. *)
LEMMA LeastGo ==
  ASSUME NEW A \in SUBSET Nat, IsFiniteSet(A), NEW k \in Nat, k <= Cardinality(A)
  PROVE  LET left == {c \in A : ~(Cardinality({o \in A : o < c}) < k)}
         IN  Cardinality(left) <= Cardinality(A) - k
<1> DEFINE left == {c \in A : ~(Cardinality({o \in A : o < c}) < k)}
<1> SUFFICES Cardinality(left) <= Cardinality(A) - k
  OBVIOUS
<1>0. IsFiniteSet(left) /\ Cardinality(left) \in Nat /\ Cardinality(A) \in Nat
  BY FS_Subset, FS_CardinalityType
<1>1. CASE left = {}
  <2>1. Cardinality(left) = 0
    BY <1>1, FS_EmptySet
  <2> HIDE DEF left
  <2> QED
    BY <1>0, <2>1
<1>2. CASE left # {}
  <2>1. PICK c \in left : \A x \in left : c <= x
    BY <1>2, LeastNat
  <2> DEFINE below == {o \in A : o < c}
  <2>2. IsFiniteSet(below) /\ Cardinality(below) \in Nat /\ Cardinality(below) >= k
    <3>1. IsFiniteSet(below) /\ Cardinality(below) \in Nat
      BY FS_Subset, FS_CardinalityType
    <3> QED
      BY <2>1, <3>1
  <2>3. below \cap left = {}
    <3>1. \A x \in left : x \in Nat /\ c \in Nat /\ ~(x < c)
      BY <2>1
    <3> QED
      BY <3>1
  <2>4. IsFiniteSet(below \cup left) /\ Cardinality(below \cup left) = Cardinality(below) + Cardinality(left)
    <3>1. Cardinality(below \cap left) = 0
      BY <2>3, FS_EmptySet
    <3> HIDE DEF below, left
    <3> QED
      BY <1>0, <2>2, <3>1, FS_Union
  <2>5. Cardinality(below \cup left) <= Cardinality(A)
    <3>1. below \cup left \subseteq A
      OBVIOUS
    <3> QED
      BY <3>1, FS_Subset
  <2> HIDE DEF below, left
  <2> QED
    BY <1>0, <2>2, <2>4, <2>5
<1> QED
  BY <1>1, <1>2

(* A challenge that granted a credential cannot be used again. *)
AuthInv ==
  /\ AuthTypeOK
  /\ \A c \in ChalIds : uses[c] > 0 =>
        c <= issued /\ (c \in DOMAIN chal => chal[c].st = "Consumed")
  /\ AuthIsSound

(* The challenges are finitely many numbers. *)
LEMMA AuthFinite ==
  ASSUME AuthTypeOK, NEW ids \in SUBSET DOMAIN chal, NEW d
  PROVE  ActiveOf(ids, d) \in SUBSET Nat /\ IsFiniteSet(ActiveOf(ids, d))
<1>1. ActiveOf(ids, d) \subseteq 1..issued /\ issued \in Nat
  BY DeviceAuthAssumption DEF AuthTypeOK, ActiveOf
<1>2. IsFiniteSet(1..issued)
  BY <1>1, FS_Interval
<1> QED
  BY <1>1, <1>2, FS_Subset

(* enforce_device_outstanding_cap leaves room for one more challenge. *)
LEMMA CapLeavesRoom ==
  ASSUME AuthTypeOK, NEW ids \in SUBSET DOMAIN chal, NEW d \in Devices
  PROVE  LET left == ActiveOf(EnforceCap(ids, d), d)
         IN  IsFiniteSet(left) /\ Cardinality(left) \in Nat /\ Cardinality(left) < PerDevice
<1> DEFINE A == ActiveOf(ids, d)
           n == Cardinality(A)
           k == n - PerDevice + 1
           left == ActiveOf(EnforceCap(ids, d), d)
<1> SUFFICES IsFiniteSet(left) /\ Cardinality(left) \in Nat /\ Cardinality(left) < PerDevice
  OBVIOUS
<1>a. A \in SUBSET Nat /\ IsFiniteSet(A)
  BY AuthFinite
<1>b. n \in Nat
  BY <1>a, FS_CardinalityType
<1>0. A \in SUBSET Nat /\ IsFiniteSet(A) /\ n \in Nat /\ PerDevice \in Nat /\ PerDevice > 0
  BY <1>a, <1>b, DeviceAuthAssumption
<1>1. left = {c \in A : ~(Cardinality({o \in A : o < c}) < k)}
  BY DEF EnforceCap, ActiveOf
<1>2. IsFiniteSet(left) /\ Cardinality(left) \in Nat /\ Cardinality(left) <= n
  BY <1>0, <1>1, FS_Subset, FS_CardinalityType
<1>3. CASE k > 0
  <2>1. k \in Nat /\ k <= n
    BY <1>0, <1>3
  <2>2. Cardinality(left) <= n - k
    BY <1>0, <1>1, <2>1, LeastGo
  <2> HIDE DEF A, left
  <2> QED
    BY <1>0, <1>2, <2>2
<1>4. CASE ~(k > 0)
  <2> HIDE DEF A, left
  <2> QED
    BY <1>0, <1>2, <1>4
<1> HIDE DEF A, left
<1> QED
  BY <1>2, <1>3, <1>4, <1>0

(* A step that adds no active challenge keeps the cap. *)
LEMMA FewerActive ==
  ASSUME AuthTypeOK, OutstandingBounded,
         \A d \in Devices : ActiveOf(DOMAIN chal, d)' \subseteq ActiveOf(DOMAIN chal, d)
  PROVE  OutstandingBounded'
<1> SUFFICES ASSUME NEW d \in Devices
             PROVE  Cardinality(ActiveOf(DOMAIN chal, d)') <= PerDevice
  BY DEF OutstandingBounded
<1>1. IsFiniteSet(ActiveOf(DOMAIN chal, d))
  BY AuthFinite
<1> DEFINE new == ActiveOf(DOMAIN chal, d)'
           old == ActiveOf(DOMAIN chal, d)
<1>2. /\ Cardinality(new) \in Nat /\ Cardinality(old) \in Nat
      /\ Cardinality(new) <= Cardinality(old) /\ Cardinality(old) <= PerDevice
  <2>1. new \subseteq old /\ Cardinality(old) <= PerDevice
    BY DEF OutstandingBounded
  <2> HIDE DEF new, old
  <2> QED
    BY <1>1, <2>1, FS_Subset, FS_CardinalityType DEF old
<1>3. PerDevice \in Nat
  BY DeviceAuthAssumption
<1> QED
  BY <1>2, <1>3

(* AuthChallengeManager::issue. *)
LEMMA ChallengeStep ==
  ASSUME AuthInv, NEW d \in Devices, IssueChallenge(d)
  PROVE  AuthInv'
<1> USE DeviceAuthAssumption
<1> DEFINE ids == EnforceCap(PruneUnusable({}), d)
<1>0. /\ issued < MaxChallenge /\ issued' = issued + 1 /\ issued \in Nat
      /\ chal' = [c \in ids \cup {issued + 1} |->
                   IF c = issued + 1
                   THEN [dev |-> d, at |-> aclock, exp |-> aclock + ChallengeTtl,
                         st |-> "Active"]
                   ELSE chal[c]]
      /\ UNCHANGED <<aclock, boot, trust, stored, unsaved, ticket, spent, certs, nonces,
                     proofs, uses>>
  BY DEF IssueChallenge, aTickets, AuthInv, AuthTypeOK
<1>1. PruneUnusable({}) \subseteq DOMAIN chal
  BY DEF PruneUnusable
<1>2. ids \subseteq DOMAIN chal /\ DOMAIN chal \subseteq 1..issued /\ issued + 1 \notin DOMAIN chal
  BY <1>0, <1>1 DEF EnforceCap, AuthInv, AuthTypeOK
<1>3. AuthTypeOK'
  <2>1. [dev |-> d, at |-> aclock, exp |-> aclock + ChallengeTtl, st |-> "Active"] \in ChalRecord
    BY DEF AuthInv, AuthTypeOK, ChalRecord
  <2>2. DOMAIN chal' \subseteq 1..issued' /\ \A c \in DOMAIN chal' : chal'[c] \in ChalRecord
    <3> HIDE DEF ids
    <3> QED
      BY <1>0, <1>2, <2>1 DEF AuthInv, AuthTypeOK
  <2>3. issued' \in 0..MaxChallenge
    BY <1>0
  <2> QED
    BY <1>0, <2>2, <2>3 DEF AuthInv, AuthTypeOK
<1>4. \A c \in ChalIds : uses'[c] > 0 =>
        c <= issued' /\ (c \in DOMAIN chal' => chal'[c].st = "Consumed")
  <2> HIDE DEF ids
  <2> QED
    BY <1>0, <1>2 DEF AuthInv, ChalIds, AuthTypeOK
<1>5. OutstandingBounded'
  <2>1. ASSUME NEW e \in Devices, e # d
        PROVE  ActiveOf(DOMAIN chal, e)' \subseteq ActiveOf(DOMAIN chal, e)
    <3> HIDE DEF ids
    <3> QED
      BY <1>0, <1>2, <2>1 DEF ActiveOf
  <2>2. ASSUME NEW e \in Devices, e # d
        PROVE  Cardinality(ActiveOf(DOMAIN chal, e)') <= PerDevice
    <3> DEFINE new == ActiveOf(DOMAIN chal, e)'
               old == ActiveOf(DOMAIN chal, e)
    <3>1. IsFiniteSet(old)
      BY AuthFinite DEF AuthInv
    <3>2. new \subseteq old /\ Cardinality(old) <= PerDevice
      BY <2>1, <2>2 DEF AuthInv, AuthIsSound, OutstandingBounded
    <3> HIDE DEF new, old
    <3>3. Cardinality(new) \in Nat /\ Cardinality(old) \in Nat /\ Cardinality(new) <= Cardinality(old)
      BY <3>1, <3>2, FS_Subset, FS_CardinalityType
    <3> QED
      BY <3>2, <3>3 DEF new
  <2>3. Cardinality(ActiveOf(DOMAIN chal, d)') <= PerDevice
    <3> DEFINE left == ActiveOf(ids, d)
    <3>1. IsFiniteSet(left) /\ Cardinality(left) \in Nat /\ Cardinality(left) < PerDevice
      BY <1>1, CapLeavesRoom DEF AuthInv
    <3>2. ActiveOf(DOMAIN chal, d)' = left \cup {issued + 1}
      <4> HIDE DEF ids
      <4> QED
        BY <1>0, <1>2 DEF ActiveOf
    <3>3. issued + 1 \notin left
      BY <1>2 DEF ActiveOf
    <3> HIDE DEF left
    <3> QED
      BY SMTT(30), <3>1, <3>2, <3>3, FS_AddElement
  <2> QED
    BY <2>2, <2>3 DEF OutstandingBounded
<1>6. ChallengeGrantsOnce' /\ TrustIsDurable'
  BY <1>0 DEF AuthInv, AuthIsSound, ChallengeGrantsOnce, TrustIsDurable
<1> QED
  BY <1>3, <1>4, <1>5, <1>6 DEF AuthInv, AuthIsSound

(* AuthChallengeManager::consume and what follows it. *)
LEMMA ProofStep ==
  ASSUME AuthInv, NEW p \in proofs, TakeProof(p), certs' \subseteq Devices \X Keys
  PROVE  AuthInv'
<1> USE DeviceAuthAssumption
<1>0. /\ p \in Proofs /\ p.dev \in Devices /\ p.ch \in ChalIds /\ p.key \in Keys
      /\ UNCHANGED <<aclock, boot, trust, stored, unsaved, ticket, spent, issued, proofs>>
      /\ aclock \in Nat
  BY DEF AuthInv, AuthTypeOK, TakeProof, aTickets, Proofs
<1>1. /\ DOMAIN chal' \subseteq DOMAIN chal
      /\ \A c \in DOMAIN chal' : chal'[c] \in ChalRecord /\ chal'[c].dev = chal[c].dev
      /\ \A c \in DOMAIN chal' : chal'[c].st = chal[c].st \/ chal'[c].st = "Consumed"
      /\ Consumable(p) /\ p.ch \in DOMAIN chal' => chal'[p.ch].st = "Consumed"
  <2> DEFINE ids == PruneUnusable({p.ch})
  <2>1. ids \subseteq DOMAIN chal /\ (p.ch \in DOMAIN chal => p.ch \in ids)
    BY DEF PruneUnusable
  <2>2. chal' = IF p.ch \notin DOMAIN chal THEN Restricted(ids)
                ELSE IF chal[p.ch].st = "Active" /\ Expired(p.ch)
                THEN Restricted(ids \ {p.ch})
                ELSE [Restricted(ids) EXCEPT ![p.ch].st = "Consumed"]
    BY DEF TakeProof, Consume
  <2>3. \A c \in DOMAIN chal : chal[c] \in ChalRecord
    BY DEF AuthInv, AuthTypeOK
  <2> HIDE DEF ids
  <2>4. CASE p.ch \notin DOMAIN chal
    BY <2>1, <2>2, <2>3, <2>4 DEF Restricted, Consumable
  <2>5. CASE p.ch \in DOMAIN chal /\ chal[p.ch].st = "Active" /\ Expired(p.ch)
    BY <2>1, <2>2, <2>3, <2>5 DEF Restricted, Consumable
  <2>6. CASE p.ch \in DOMAIN chal /\ ~(chal[p.ch].st = "Active" /\ Expired(p.ch))
    <3>1. chal' = [Restricted(ids) EXCEPT ![p.ch].st = "Consumed"]
      BY <2>2, <2>6
    <3>2. DOMAIN chal' = ids
      BY <3>1 DEF Restricted
    <3>3. \A c \in ids : c # p.ch => chal'[c] = chal[c]
      BY <3>1 DEF Restricted
    <3>4. chal'[p.ch] = [chal[p.ch] EXCEPT !.st = "Consumed"]
      BY <2>1, <2>6, <3>1 DEF Restricted
    <3>5. /\ chal'[p.ch] \in ChalRecord /\ chal'[p.ch].dev = chal[p.ch].dev
          /\ chal'[p.ch].st = "Consumed"
      BY <2>3, <2>6, <3>4 DEF ChalRecord
    <3> QED
      BY <2>1, <2>3, <3>2, <3>3, <3>5
  <2> QED
    BY <2>4, <2>5, <2>6
<1>2. /\ uses' \in [ChalIds -> Nat]
      /\ \A c \in ChalIds : c # p.ch => uses'[c] = uses[c]
      /\ uses'[p.ch] = IF ProofAccepted(p) THEN uses[p.ch] + 1 ELSE uses[p.ch]
  BY <1>0 DEF TakeProof, AuthInv, AuthTypeOK
<1>3. ProofAccepted(p) => Consumable(p) /\ p.ch \in DOMAIN chal /\ uses[p.ch] = 0
  BY <1>0 DEF ProofAccepted, Consumable, AuthInv, AuthTypeOK
<1>4. nonces' \subseteq Proofs \X Nat
  BY <1>0 DEF TakeProof, PruneNonces, AuthInv, AuthTypeOK
<1>5. AuthTypeOK'
  BY <1>0, <1>1, <1>2, <1>4 DEF AuthInv, AuthTypeOK, Proofs
<1>6. \A c \in ChalIds : uses'[c] > 0 =>
        c <= issued' /\ (c \in DOMAIN chal' => chal'[c].st = "Consumed")
  <2>1. \A c \in DOMAIN chal : c <= issued /\ c \in ChalIds
    BY DEF AuthInv, AuthTypeOK, ChalIds
  <2>2. \A c \in ChalIds : uses[c] > 0 =>
           c <= issued /\ (c \in DOMAIN chal' => chal'[c].st = "Consumed")
    BY <1>1 DEF AuthInv
  <2> QED
    BY <1>0, <1>1, <1>2, <1>3, <2>1, <2>2
<1>7. OutstandingBounded'
  <2>1. \A d \in Devices : ActiveOf(DOMAIN chal, d)' \subseteq ActiveOf(DOMAIN chal, d)
    BY <1>1 DEF ActiveOf
  <2> QED
    BY <2>1, FewerActive DEF AuthInv, AuthIsSound
<1>8. ChallengeGrantsOnce' /\ TrustIsDurable'
  BY <1>0, <1>2, <1>3 DEF AuthInv, AuthIsSound, ChallengeGrantsOnce, TrustIsDurable, AuthTypeOK
<1> QED
  BY <1>5, <1>6, <1>7, <1>8 DEF AuthInv, AuthIsSound

LEMMA AuthStep == AuthInv /\ [AuthNext]_authVars => AuthInv'
<1> SUFFICES ASSUME AuthInv, [AuthNext]_authVars
             PROVE  AuthInv'
  OBVIOUS
<1> USE DeviceAuthAssumption
<1>a. ASSUME UNCHANGED <<chal, issued, uses>>, AuthTypeOK', TrustIsDurable'
      PROVE  AuthInv'
  BY <1>a DEF AuthInv, AuthIsSound, ChallengeGrantsOnce, OutstandingBounded, ActiveOf
<1>1. ASSUME NEW t \in Tickets, IssuePairTicket(t)
      PROVE  AuthInv'
  BY <1>1, <1>a DEF IssuePairTicket, aProof, AuthInv, AuthTypeOK, AuthIsSound, TrustIsDurable, Proofs
<1>2. ASSUME NEW t \in Tickets, NEW d \in Devices, NEW k \in Keys, AuthPair(t, d, k)
      PROVE  AuthInv'
  <2>1. /\ trust' = [trust EXCEPT ![d] = k]
        /\ UNCHANGED <<aclock, boot, ticket, chal, issued, nonces, proofs, uses>>
        /\ \/ stored' = trust' /\ unsaved' = {}
              /\ spent' = spent \cup {t} /\ certs' = certs \cup {<<d, k>>}
           \/ unsaved' = unsaved \cup {d} /\ UNCHANGED <<stored, spent, certs>>
    BY <1>2 DEF AuthPair, PairDeviceCertificate, TrustDevice, IssueCertificate, aProof
  <2>2. TrustIsDurable'
    BY <2>1 DEF AuthInv, AuthTypeOK, AuthIsSound, TrustIsDurable
  <2>3. AuthTypeOK'
    BY <2>1 DEF AuthInv, AuthTypeOK, Proofs
  <2> QED
    BY <1>a, <2>1, <2>2, <2>3
<1>3. ASSUME NEW d \in Devices, AuthChallenge(d)
      PROVE  AuthInv'
  BY <1>3, ChallengeStep DEF AuthChallenge, MigrationChallenge, AccessTokenChallenge
<1>4. ASSUME NEW d \in Devices, NEW k \in Keys, NEW c \in ChalIds, DeviceProves(d, k, c)
      PROVE  AuthInv'
  <2>1. PICK skew \in 0..Skew :
          proofs' = proofs \cup {[dev |-> d, key |-> k, ch |-> c, ts |-> aclock + skew]}
    BY <1>4 DEF DeviceProves
  <2>2. [dev |-> d, key |-> k, ch |-> c, ts |-> aclock + skew] \in Proofs
    BY DEF AuthInv, AuthTypeOK, Proofs
  <2>3. UNCHANGED <<aclock, boot, trust, stored, unsaved, ticket, spent, certs, chal,
                    issued, nonces, uses>>
    BY <1>4 DEF DeviceProves, aTickets
  <2>4. AuthTypeOK' /\ TrustIsDurable'
    BY <2>1, <2>2, <2>3 DEF AuthInv, AuthTypeOK, AuthIsSound, TrustIsDurable
  <2> QED
    BY <1>a, <2>3, <2>4
<1>5. ASSUME NEW p \in proofs, ProofArrives(p)
      PROVE  AuthInv'
  <2>1. p.dev \in Devices /\ p.key \in Keys /\ certs \subseteq Devices \X Keys
    BY DEF AuthInv, AuthTypeOK, Proofs
  <2>2. TakeProof(p) /\ certs' \subseteq Devices \X Keys
    BY <1>5, <2>1 DEF ProofArrives, MigrateCertificate, ExchangeAccessToken, IssueCertificate
  <2> QED
    BY <2>2, ProofStep
<1>6. CASE StatePersists
  BY <1>6, <1>a DEF StatePersists, aTickets, aProof, AuthInv, AuthTypeOK, AuthIsSound, TrustIsDurable
<1>7. CASE AuthTick
  BY <1>7, <1>a DEF AuthTick, aTickets, aProof, AuthInv, AuthTypeOK, AuthIsSound, TrustIsDurable
<1>8. CASE AuthRestart
  <2>1. /\ trust' = stored /\ spent' = {} /\ chal' = <<>> /\ nonces' = {} /\ unsaved' = {}
        /\ boot' \in 0..MaxBoot
        /\ UNCHANGED <<aclock, stored, ticket, certs, issued, proofs, uses>>
    BY <1>8 DEF AuthRestart, AuthInv, AuthTypeOK
  <2>2. DOMAIN chal' = {}
    BY <2>1
  <2>3. AuthTypeOK' /\ TrustIsDurable'
    BY <2>1, <2>2 DEF AuthInv, AuthTypeOK, TrustIsDurable
  <2>4. OutstandingBounded'
    <3>1. \A d \in Devices : ActiveOf(DOMAIN chal, d)' \subseteq ActiveOf(DOMAIN chal, d)
      BY <2>2 DEF ActiveOf
    <3> QED
      BY <3>1, FewerActive DEF AuthInv, AuthIsSound
  <2> QED
    BY <2>1, <2>2, <2>3, <2>4 DEF AuthInv, AuthIsSound, ChallengeGrantsOnce
<1>9. CASE UNCHANGED authVars
  BY <1>9, <1>a DEF authVars, AuthInv, AuthTypeOK, AuthIsSound, TrustIsDurable
<1> QED
  BY <1>1, <1>2, <1>3, <1>4, <1>5, <1>6, <1>7, <1>8, <1>9 DEF AuthNext

LEMMA AuthInitInv == AuthInit => AuthInv
<1> SUFFICES ASSUME AuthInit PROVE AuthInv
  OBVIOUS
<1> USE DeviceAuthAssumption
<1>1. DOMAIN chal = {} /\ uses = [c \in ChalIds |-> 0]
  BY DEF AuthInit
<1>2. AuthTypeOK
  BY <1>1 DEF AuthInit, AuthTypeOK
<1>3. OutstandingBounded
  <2>1. \A d \in Devices : ActiveOf(DOMAIN chal, d) = {}
    BY <1>1 DEF ActiveOf
  <2> QED
    BY <2>1, FS_EmptySet DEF OutstandingBounded
<1> QED
  BY <1>1, <1>2, <1>3 DEF AuthInit, AuthInv, AuthIsSound, ChallengeGrantsOnce, TrustIsDurable

(* Whatever is replayed, pruned, evicted or restarted, a challenge grants  *)
(* at most one credential, a device holds no more usable challenges than   *)
(* the cap, and trust that was answered for is on disk (consume,           *)
(* enforce_device_outstanding_cap, pair_device_certificate), for every     *)
(* number of devices, keys, challenges and restarts.                       *)
THEOREM AuthSound == AuthSpec => [](AuthTypeOK /\ AuthIsSound)
<1>1. AuthInv => AuthTypeOK /\ AuthIsSound
  BY DEF AuthInv
<1> QED
  BY <1>1, AuthInitInv, AuthStep, PTL DEF AuthSpec
-----------------------------------------------------------------------------
(* Installer.                                                              *)

Places ==
  {"idle", "plan", "secret", "check", "agree", "download", "probe", "handover", "script",
   "resolve", "precheck", "snapshot", "prepare", "stop", "recheck", "replace", "terminate",
   "persist", "restart", "deferred", "verify", "rollback", "uninstall"}

Results ==
  {"none", "refused", "done", "cancelled", "failed", "busy", "unverified", "incomplete", "killed"}

CommandType ==
  [at: Places, opt: Options, consent: BOOLEAN, lossOk: BOOLEAN, clear: BOOLEAN,
   defer: BOOLEAN, committed: BOOLEAN, wasActive: BOOLEAN, wasEnabled: BOOLEAN,
   result: Results]

(* What the service runs is nothing, or files with a binary. *)
RunFiles == {f \in InstalledFiles : f = NoFiles \/ f.binary # "none"}

HostType == InstallTypeOK /\ svc.run \in RunFiles

(* The operator has agreed before the script runs, session loss is cleared *)
(* only where it was authorised; from the second read of the ledger to the *)
(* restart the daemon is down and nothing is pending; and up to the commit *)
(* the binary on disk is the one that was saved.                           *)
InstallInv ==
  /\ cmd \in CommandType
  /\ HostType
  /\ cmd.at \notin {"idle", "plan", "check", "agree"} => cmd.consent
  /\ cmd.clear => cmd.lossOk
  /\ cmd.at \in {"recheck", "replace", "terminate", "persist", "restart"} => ~Running
  /\ cmd.at \in {"replace", "terminate", "persist", "restart"} => ~PendingOwnership
  /\ cmd.at \in {"deferred", "rollback"} => \/ Running \/ ~PendingOwnership
                                           \/ disk.binary = saved.binary
  /\ cmd.at \in {"prepare", "stop", "recheck", "replace"} => disk.binary = saved.binary

(* The command and the files the host starts with. *)
LEMMA InstallFacts ==
  /\ IdleCommand \in CommandType /\ NoFiles \in InstalledFiles /\ NoFiles \in RunFiles
  /\ \A r \in Results : [IdleCommand EXCEPT !.result = r] \in CommandType
<1>1. NoOptions \in Options /\ NoFiles \in InstalledFiles
  BY DEF NoOptions, Options, Versions, NoFiles, InstalledFiles
<1>4. NoFiles \in RunFiles
  BY <1>1 DEF RunFiles
<1>2. IdleCommand \in CommandType
  BY <1>1 DEF IdleCommand, CommandType, Places, Results
<1>3. \A r \in Results : [IdleCommand EXCEPT !.result = r] \in CommandType
  BY <1>2 DEF CommandType
<1> QED
  BY <1>1, <1>2, <1>3, <1>4

(* A command that ends, wherever it was. *)
LEMMA EndsKeeps ==
  ASSUME InstallInv, NEW r \in Results, Ends(r), HostType'
  PROVE  InstallInv'
<1>1. cmd' \in CommandType /\ cmd'.at = "idle" /\ cmd'.clear = FALSE
  BY InstallFacts DEF Ends, IdleCommand
<1> QED
  BY <1>1 DEF InstallInv

(* A step of a command keeps what it was given. *)
LEMMA GotoKeeps ==
  ASSUME InstallInv, NEW a \in Places, Goto(a)
  PROVE  /\ cmd' \in CommandType /\ cmd'.at = a /\ cmd'.opt = cmd.opt
         /\ cmd'.consent = cmd.consent /\ cmd'.clear = cmd.clear /\ cmd'.lossOk = cmd.lossOk
BY DEF InstallInv, Goto, CommandType

(* The commands before the script change nothing of the host. *)
LEMMA CommandKeeps ==
  ASSUME InstallInv, CommandStep
  PROVE  InstallInv'
<1> USE InstallerAssumption DEF Places, Results
<1>0. UNCHANGED <<disk, saved, svc, sessionDb, sups>> /\ ran' \in 0..MaxCommand /\ ifaults' \in 0..MaxFault
  <2>1. ran \in 0..MaxCommand /\ ifaults \in 0..MaxFault
    BY DEF InstallInv, HostType, InstallTypeOK
  <2>2. HostSame
    BY DEF CommandStep, Parse, Plan, ReadSecret, CheckRelease, Agree, Download, CandidateVersion,
       InstallCandidate
  <2>3. ran' = ran \/ (ran < MaxCommand /\ ran' = ran + 1)
    BY DEF CommandStep, Parse, Plan, ReadSecret, CheckRelease, Agree, Download, CandidateVersion,
       InstallCandidate
  <2>4. NoFault \/ Fault
    BY DEF CommandStep, Parse, Plan, ReadSecret, CheckRelease, Agree, Download, CandidateVersion,
       InstallCandidate
  <2> QED
    BY <2>1, <2>2, <2>3, <2>4 DEF HostSame, NoFault, Fault
<1>a. ASSUME cmd' \in CommandType, cmd'.at \in {"idle", "plan", "check", "agree"},
             cmd'.clear => cmd'.lossOk
      PROVE  InstallInv'
  BY <1>0, <1>a DEF InstallInv, HostType, InstallTypeOK, CommandType
<1>b. ASSUME cmd' \in CommandType, cmd'.at \in {"secret", "download", "probe", "handover", "script"},
             cmd'.consent, cmd'.clear => cmd'.lossOk
      PROVE  InstallInv'
  BY <1>0, <1>b DEF InstallInv, HostType, InstallTypeOK, CommandType
<1>c. ASSUME NEW r \in Results, Ends(r)
      PROVE  InstallInv'
  <2>1. cmd' \in CommandType /\ cmd'.at = "idle" /\ cmd'.clear = FALSE
    BY <1>c, InstallFacts DEF Ends, IdleCommand
  <2> QED
    BY <1>a, <2>1
<1>d. cmd \in CommandType /\ (cmd.clear => cmd.lossOk)
  BY DEF InstallInv
<1>1. CASE Parse
  <2>1. PICK o \in Requests :
          cmd' = IF o.token = "both"
                 THEN [IdleCommand EXCEPT !.result = "refused"]
                 ELSE [IdleCommand EXCEPT !.opt = o,
                       !.at = IF o.kind = "upgrade" THEN "check" ELSE "plan"]
    BY <1>1 DEF Parse
  <2>2. CASE o.token = "both"
    BY <1>c, <2>1, <2>2 DEF Ends
  <2>3. CASE o.token # "both"
    <3>1. o \in Options
      BY DEF Requests
    <3>2. cmd' = [IdleCommand EXCEPT !.opt = o, !.at = IF o.kind = "upgrade" THEN "check" ELSE "plan"]
      BY <2>1, <2>3
    <3>3. cmd' \in CommandType
      <4> DEFINE a == IF o.kind = "upgrade" THEN "check" ELSE "plan"
      <4>1. a \in Places /\ cmd' = [IdleCommand EXCEPT !.opt = o, !.at = a]
        BY <3>2
      <4> HIDE DEF a, Places, Results
      <4>2. ASSUME NEW x \in CommandType
            PROVE  [x EXCEPT !.opt = o, !.at = a] \in CommandType
        BY <3>1, <4>1 DEF CommandType
      <4> QED
        BY <4>1, <4>2, InstallFacts
    <3>4. cmd'.at \in {"check", "plan"} /\ cmd'.clear = FALSE
      BY <3>2 DEF IdleCommand
    <3> QED
      BY <1>a, <3>3, <3>4
  <2> QED
    BY <2>2, <2>3
<1>2. CASE Plan
  <2>1. PICK o \in FreshDefaults(cmd.opt) :
          \/ Ends("done") \/ Ends("refused") \/ Ends("cancelled")
          \/ cmd' = [cmd EXCEPT !.opt = o, !.consent = TRUE, !.at = "secret"]
    BY <1>2 DEF Plan
  <2>2. o \in Options
    <3>1. cmd.opt \in Options
      BY <1>d DEF CommandType
    <3>2. o = cmd.opt \/ o = [cmd.opt EXCEPT !.relay = TRUE]
      BY DEF FreshDefaults
    <3> QED
      BY <3>1, <3>2 DEF Options
  <2>3. CASE cmd' = [cmd EXCEPT !.opt = o, !.consent = TRUE, !.at = "secret"]
    BY <1>b, <1>d, <2>2, <2>3 DEF CommandType
  <2> QED
    BY <1>c, <2>1, <2>3
<1>3. CASE ReadSecret
  BY <1>3, <1>b, <1>c, GotoKeeps DEF ReadSecret, At, InstallInv
<1>4. CASE CheckRelease
  BY <1>4, <1>a, <1>c, <1>d, GotoKeeps DEF CheckRelease
<1>5. CASE Agree
  <2>1. CASE cmd' = [cmd EXCEPT !.consent = TRUE, !.at = "download"]
    BY <1>b, <1>d, <2>1 DEF CommandType
  <2> QED
    BY <1>5, <1>c, <2>1 DEF Agree
<1>6. CASE Download
  BY <1>6, <1>b, <1>c, <1>d, GotoKeeps DEF Download, At, InstallInv
<1>7. CASE CandidateVersion
  BY <1>7, <1>b, <1>c, <1>d, GotoKeeps DEF CandidateVersion, At, InstallInv
<1>8. CASE InstallCandidate
  <2> DEFINE o == [NoOptions EXCEPT !.yes = TRUE, !.root = TRUE, !.tty = cmd.opt.tty,
                      !.loss = cmd.opt.loss, !.bin = "new"]
  <2>1. o \in Options
    BY <1>d DEF CommandType, Options, NoOptions, Versions
  <2>2. cmd' = [cmd EXCEPT !.at = "script", !.opt = o] /\ cmd.at = "handover"
    BY <1>8 DEF InstallCandidate, At
  <2> HIDE DEF o
  <2>3. cmd' \in CommandType /\ cmd'.at = "script" /\ cmd'.consent = cmd.consent
        /\ cmd'.clear = cmd.clear /\ cmd'.lossOk = cmd.lossOk
    BY <1>d, <2>1, <2>2 DEF CommandType
  <2> QED
    BY <1>b, <1>d, <2>2, <2>3 DEF InstallInv
<1> QED
  BY <1>1, <1>2, <1>3, <1>4, <1>5, <1>6, <1>7, <1>8 DEF CommandStep

(* The script; where it leaves the files and the ledger alone, and does    *)
(* not start the daemon, only the order of its steps matters.              *)
LEMMA ScriptKeeps ==
  ASSUME InstallInv, ScriptStep
  PROVE  InstallInv'
<1> USE InstallerAssumption DEF Places, Results
<1>0. /\ cmd \in CommandType /\ HostType /\ (cmd.clear => cmd.lossOk)
      /\ cmd.opt.bin \in Versions /\ cmd.opt \in Options
  BY DEF InstallInv, CommandType, Options
<1>1. ran' = ran /\ ifaults' \in 0..MaxFault
  <2>1. NoFault \/ Fault
    BY DEF ScriptStep, Validate, ResolveSupervisorVersion, Precheck, SnapshotHost, Prepare,
       StopService, Recheck, ReplaceBinary, TerminateSupervisors, PersistSupervisorVersion,
       Restart, PersistDeferred, Verify, Rollback, Uninstall, Killed
  <2>2. ran' = ran
    BY DEF ScriptStep, Validate, ResolveSupervisorVersion, Precheck, SnapshotHost, Prepare,
       StopService, Recheck, ReplaceBinary, TerminateSupervisors, PersistSupervisorVersion,
       Restart, PersistDeferred, Verify, Rollback, Uninstall, Killed
  <2> QED
    BY <2>1, <2>2 DEF NoFault, Fault, InstallInv, HostType, InstallTypeOK
<1>a. ASSUME /\ disk' \in InstalledFiles /\ saved' \in InstalledFiles
             /\ svc'.run \in RunFiles /\ svc'.enabled \in BOOLEAN
             /\ sessionDb' \in [schema: {"absent", "poisoned", "ready"},
                               compat: Versions \cup {"none"},
                               sessions: SUBSET Versions, pending: BOOLEAN]
             /\ sups' \subseteq Versions,
             cmd' \in CommandType
      PROVE  HostType'
  <2>1. cmd'.opt \in Options
    BY <1>a DEF CommandType
  <2>2. ran' \in 0..MaxCommand
    BY <1>1 DEF InstallInv, HostType, InstallTypeOK
  <2> QED
    BY <1>1, <1>a, <2>1, <2>2 DEF HostType, InstallTypeOK, RunFiles
<1>b. /\ disk \in InstalledFiles /\ saved \in InstalledFiles
      /\ svc.run \in RunFiles /\ svc.enabled \in BOOLEAN
      /\ sessionDb \in [schema: {"absent", "poisoned", "ready"},
                       compat: Versions \cup {"none"},
                       sessions: SUBSET Versions, pending: BOOLEAN]
      /\ sups \subseteq Versions
  BY <1>0 DEF HostType, InstallTypeOK
<1>c. ASSUME HostSame, NEW r \in Results, Ends(r)
      PROVE  InstallInv'
  <2>1. cmd' \in CommandType
    BY <1>c, InstallFacts DEF Ends
  <2> QED
    BY <1>a, <1>b, <1>c, <2>1, EndsKeeps DEF HostSame
<1>d. ASSUME HostSame, cmd' \in CommandType, cmd'.consent, cmd'.clear => cmd'.lossOk,
             cmd'.at \in {"resolve", "precheck", "snapshot", "uninstall"}
      PROVE  InstallInv'
  <2>1. HostType'
    BY <1>a, <1>b, <1>d DEF HostSame
  <2> QED
    BY <1>d, <2>1 DEF InstallInv
<1>e. cmd.at \notin {"idle", "plan", "check", "agree"} => cmd.consent
  BY DEF InstallInv
<1>2. CASE Validate
  BY <1>2, <1>0, <1>c, <1>d, <1>e, GotoKeeps DEF Validate, At
<1>3. CASE ResolveSupervisorVersion
  <2>1. CASE cmd' = [cmd EXCEPT !.lossOk = TRUE, !.clear = TRUE, !.at = "precheck"]
    <3>1. cmd' \in CommandType /\ cmd'.at = "precheck" /\ cmd'.lossOk /\ cmd'.consent = cmd.consent
      BY <1>0, <2>1 DEF CommandType
    <3> QED
      BY <1>3, <1>d, <1>e, <3>1 DEF ResolveSupervisorVersion, At
  <2> QED
    BY <1>3, <1>0, <1>c, <1>d, <1>e, <2>1, GotoKeeps DEF ResolveSupervisorVersion, At
<1>4. CASE Precheck
  BY <1>4, <1>0, <1>c, <1>d, <1>e, GotoKeeps DEF Precheck, At
<1>5. CASE SnapshotHost
  <2>1. CASE Ends("failed") /\ UNCHANGED saved
    BY <1>5, <1>c, <2>1 DEF SnapshotHost, HostSame
  <2>2. CASE saved' = disk /\ cmd' = [cmd EXCEPT !.at = "prepare", !.wasEnabled = svc.enabled]
    <3>1. /\ cmd' \in CommandType /\ cmd'.at = "prepare" /\ cmd'.lossOk = cmd.lossOk
          /\ cmd'.clear = cmd.clear /\ cmd'.consent = cmd.consent
      BY <1>0, <1>b, <2>2 DEF CommandType
    <3>2. UNCHANGED <<disk, svc, sessionDb, sups>> /\ cmd.consent
      BY <1>5, <1>e DEF SnapshotHost, At
    <3>3. HostType'
      BY <1>a, <1>b, <2>2, <3>1, <3>2
    <3> QED
      BY <1>0, <2>2, <3>1, <3>2, <3>3 DEF InstallInv
  <2> QED
    BY <1>5, <2>1, <2>2 DEF SnapshotHost
<1>6. CASE Prepare
  <2>1. UNCHANGED <<saved, svc, sessionDb, sups>> /\ cmd.consent /\ disk.binary = saved.binary
    BY <1>6, <1>e DEF Prepare, At, InstallInv
  <2>2. Goto("stop") \/ Goto("rollback")
    BY <1>6 DEF Prepare
  <2>3. \E c \in {disk.conf, "new"} : disk' = [disk EXCEPT !.conf = c]
    BY <1>6 DEF Prepare
  <2>4. disk' \in InstalledFiles /\ disk'.binary = disk.binary
    BY <1>b, <2>3 DEF InstalledFiles, Versions
  <2>5. HostType'
    BY <1>a, <1>b, <2>1, <2>2, <2>4, GotoKeeps
  <2> QED
    BY <1>0, <2>1, <2>2, <2>4, <2>5, GotoKeeps DEF InstallInv
<1>7. CASE StopService
  <2>1. UNCHANGED <<disk, saved, sessionDb, sups>> /\ cmd.consent /\ disk.binary = saved.binary
    BY <1>7, <1>e DEF StopService, At, InstallInv
  <2>2. \E a \in {"recheck", "rollback"}, b \in BOOLEAN : cmd' = [cmd EXCEPT !.at = a, !.wasActive = b]
    BY <1>7 DEF StopService
  <2>3. /\ cmd' \in CommandType /\ cmd'.at \in {"recheck", "rollback"}
        /\ cmd'.lossOk = cmd.lossOk /\ cmd'.clear = cmd.clear /\ cmd'.consent = cmd.consent
    BY <1>0, <2>2 DEF CommandType
  <2>4. svc'.run \in RunFiles /\ svc'.enabled = svc.enabled /\ (cmd'.at = "recheck" => svc'.run = NoFiles)
    <3>1. CASE svc' = [svc EXCEPT !.run = NoFiles]
      BY <1>b, <3>1, InstallFacts
    <3>2. CASE cmd' = [cmd EXCEPT !.at = "rollback", !.wasActive = TRUE] /\ UNCHANGED svc
      BY <1>0, <1>b, <3>2 DEF CommandType
    <3> QED
      BY <1>7, <3>1, <3>2 DEF StopService
  <2>5. HostType'
    BY <1>a, <1>b, <2>1, <2>3, <2>4
  <2> QED
    BY <1>0, <2>1, <2>3, <2>4, <2>5 DEF InstallInv, Running
<1>s. Started \in RunFiles /\ NoFiles \in RunFiles
  BY <1>b, InstallFacts DEF Started, RunFiles
<1>f. ASSUME RestoreService
      PROVE  svc'.run \in RunFiles /\ svc'.enabled \in BOOLEAN
  BY <1>b, <1>f, <1>s, InstallFacts DEF RestoreService
<1>8. CASE Recheck
  <2>1. UNCHANGED <<disk, saved, sessionDb, sups>> /\ cmd.consent /\ disk.binary = saved.binary /\ ~Running
    BY <1>8, <1>e DEF Recheck, At, InstallInv
  <2>2. \/ Goto("rollback") /\ RestoreService
        \/ ~PendingOwnership /\ Goto("replace") /\ UNCHANGED svc
    BY <1>8 DEF Recheck
  <2>3. HostType'
    BY <1>a, <1>b, <1>f, <2>1, <2>2, GotoKeeps
  <2> QED
    BY <1>0, <2>1, <2>2, <2>3, GotoKeeps DEF InstallInv, Running, PendingOwnership
<1>9. CASE ReplaceBinary
  <2>1. UNCHANGED <<saved, sessionDb, sups>> /\ cmd.consent /\ ~Running /\ ~PendingOwnership
    BY <1>9, <1>e DEF ReplaceBinary, At, InstallInv
  <2>2. CASE /\ disk' = [disk EXCEPT !.binary = cmd.opt.bin]
             /\ cmd' = [cmd EXCEPT !.at = "terminate", !.committed = TRUE] /\ UNCHANGED svc
    <3>1. /\ cmd' \in CommandType /\ cmd'.at = "terminate" /\ cmd'.lossOk = cmd.lossOk
          /\ cmd'.clear = cmd.clear /\ cmd'.consent = cmd.consent
      BY <1>0, <2>2 DEF CommandType
    <3>2. disk' \in InstalledFiles
      BY <1>0, <1>b, <2>2 DEF InstalledFiles
    <3>3. HostType'
      BY <1>a, <1>b, <2>1, <2>2, <3>1, <3>2
    <3> QED
      BY <1>0, <2>1, <2>2, <3>1, <3>3 DEF InstallInv, Running, PendingOwnership
  <2>3. CASE Goto("rollback") /\ RestoreService /\ UNCHANGED disk
    <3>1. HostType'
      BY <1>a, <1>b, <1>f, <2>1, <2>3, GotoKeeps
    <3> QED
      BY <1>0, <2>1, <2>3, <3>1, GotoKeeps DEF InstallInv, PendingOwnership
  <2> QED
    BY <1>9, <2>2, <2>3 DEF ReplaceBinary
<1>10. CASE TerminateSupervisors
  <2>1. UNCHANGED <<disk, saved, svc>> /\ cmd.consent /\ ~Running /\ ~PendingOwnership
    BY <1>10, <1>e DEF TerminateSupervisors, At, InstallInv
  <2>2. (Goto("persist") \/ Goto("rollback")) /\ sups' \subseteq Versions
        /\ sessionDb' \in {sessionDb, ClearAllSessionState}
    BY <1>10, <1>b DEF TerminateSupervisors
  <2>3. /\ sessionDb' \in [schema: {"absent", "poisoned", "ready"}, compat: Versions \cup {"none"},
                          sessions: SUBSET Versions, pending: BOOLEAN]
        /\ sessionDb'.schema = sessionDb.schema /\ sessionDb'.pending = sessionDb.pending
    BY <1>b, <2>2 DEF ClearAllSessionState
  <2>4. HostType'
    BY <1>a, <1>b, <2>1, <2>2, <2>3, GotoKeeps
  <2> QED
    BY <1>0, <2>1, <2>2, <2>3, <2>4, GotoKeeps DEF InstallInv, Running, PendingOwnership
<1>11. CASE PersistSupervisorVersion
  <2>1. UNCHANGED <<disk, saved, svc, sups>> /\ cmd.consent /\ ~Running /\ ~PendingOwnership
    BY <1>11, <1>e DEF PersistSupervisorVersion, At, InstallInv
  <2>2. /\ Goto("restart") \/ Goto("rollback") \/ cmd' = [cmd EXCEPT !.at = "restart", !.defer = TRUE]
        /\ sessionDb' \in {sessionDb, RepairInstallerState, UpsertCompat(cmd.opt.bin)}
    BY <1>11 DEF PersistSupervisorVersion
  <2>3. /\ cmd' \in CommandType /\ cmd'.at \in {"restart", "rollback"} /\ cmd'.lossOk = cmd.lossOk
        /\ cmd'.clear = cmd.clear /\ cmd'.consent = cmd.consent
    <3>1. CASE cmd' = [cmd EXCEPT !.at = "restart", !.defer = TRUE]
      BY <1>0, <3>1 DEF CommandType
    <3> QED
      BY <2>2, <3>1, GotoKeeps
  <2>4. /\ sessionDb' \in [schema: {"absent", "poisoned", "ready"}, compat: Versions \cup {"none"},
                          sessions: SUBSET Versions, pending: BOOLEAN]
        /\ sessionDb'.schema \in {sessionDb.schema, "absent"} /\ sessionDb'.pending = sessionDb.pending
    BY <1>0, <1>b, <2>2 DEF RepairInstallerState, UpsertCompat
  <2>5. HostType'
    BY <1>a, <1>b, <2>1, <2>3, <2>4
  <2> QED
    BY <1>0, <2>1, <2>3, <2>4, <2>5 DEF InstallInv, Running, PendingOwnership
<1>12. CASE Restart
  <2>1. UNCHANGED <<disk, saved, sessionDb, sups>> /\ cmd.consent /\ ~PendingOwnership
    BY <1>12, <1>e DEF Restart, At, InstallInv
  <2>2. Goto("deferred") \/ Goto("verify") \/ Goto("rollback")
    BY <1>12 DEF Restart
  <2>3. svc'.run \in RunFiles /\ svc'.enabled \in BOOLEAN
    <3>1. CASE svc' = [run |-> Started, enabled |-> TRUE]
      BY <1>s, <3>1
    <3>2. CASE \E e \in {svc.enabled, TRUE} : svc' = [svc EXCEPT !.enabled = e]
      <4>1. PICK e \in {svc.enabled, TRUE} : svc' = [svc EXCEPT !.enabled = e]
        BY <3>2
      <4>2. e \in BOOLEAN
        BY <1>b
      <4>3. svc'.run = svc.run /\ svc'.enabled \in {e, svc.enabled}
        BY <4>1
      <4> QED
        BY <1>b, <4>2, <4>3
    <3> QED
      BY <1>12, <3>1, <3>2 DEF Restart
  <2>4. HostType'
    BY <1>a, <1>b, <2>1, <2>2, <2>3, GotoKeeps
  <2> QED
    BY <1>0, <2>1, <2>2, <2>4, GotoKeeps DEF InstallInv, PendingOwnership
<1>13. CASE PersistDeferred
  <2>1. /\ UNCHANGED <<disk, saved, svc, sups>> /\ cmd.consent
        /\ \/ Running \/ ~PendingOwnership \/ disk.binary = saved.binary
    BY <1>13, <1>e DEF PersistDeferred, At, InstallInv
  <2>2. Goto("verify") \/ Goto("rollback")
    BY <1>13 DEF PersistDeferred
  <2>3. sessionDb' \in {sessionDb, UpsertCompat(cmd.opt.bin)}
    BY <1>13 DEF PersistDeferred
  <2>4. /\ sessionDb' \in [schema: {"absent", "poisoned", "ready"}, compat: Versions \cup {"none"},
                          sessions: SUBSET Versions, pending: BOOLEAN]
        /\ sessionDb'.schema = sessionDb.schema /\ sessionDb'.pending = sessionDb.pending
    BY <1>0, <1>b, <2>3 DEF UpsertCompat
  <2>5. HostType'
    BY <1>a, <1>b, <2>1, <2>2, <2>4, GotoKeeps
  <2> QED
    BY <1>0, <2>1, <2>2, <2>4, <2>5, GotoKeeps DEF InstallInv, Running, PendingOwnership
<1>14. CASE Verify
  BY <1>14, <1>c DEF Verify
<1>15. CASE Rollback
  <2>1. UNCHANGED <<saved, sessionDb, sups>> /\ (Ends("failed") \/ Ends("incomplete"))
    BY <1>15 DEF Rollback
  <2>2. disk' \in InstalledFiles
    BY <1>15, <1>b DEF Rollback, Partly, InstalledFiles
  <2>3. svc'.run \in RunFiles /\ svc'.enabled \in BOOLEAN
    <3>1. CASE ~cmd.committed
      BY <1>15, <1>b, <3>1 DEF Rollback
    <3>2. CASE cmd.committed
      <4>1. svc' = [enabled |-> cmd.wasEnabled,
                    run |-> CASE ~cmd.wasActive -> NoFiles
                              [] cmd.wasActive /\ svc.run # NoFiles -> svc.run
                              [] OTHER -> IF disk'.binary = "none" THEN NoFiles ELSE disk']
        BY <1>15, <3>2 DEF Rollback
      <4>2. cmd.wasEnabled \in BOOLEAN
        BY <1>0 DEF CommandType
      <4> QED
        BY <1>b, <2>2, <4>1, <4>2, InstallFacts DEF RunFiles
    <3> QED
      BY <3>1, <3>2
  <2>4. cmd' \in CommandType
    BY <2>1, InstallFacts DEF Ends
  <2> QED
    BY <1>a, <1>b, <2>1, <2>2, <2>3, <2>4, EndsKeeps
<1>16. CASE Uninstall
  <2>1. UNCHANGED <<saved, sups>> /\ Ends("done") /\ disk' = NoFiles
        /\ svc' = [run |-> NoFiles, enabled |-> FALSE]
    BY <1>16 DEF Uninstall
  <2>2. sessionDb' \in [schema: {"absent", "poisoned", "ready"}, compat: Versions \cup {"none"},
                       sessions: SUBSET Versions, pending: BOOLEAN]
    BY <1>16, <1>b DEF Uninstall
  <2>3. cmd' \in CommandType
    BY <2>1, InstallFacts DEF Ends
  <2> QED
    BY <1>a, <1>b, <2>1, <2>2, <2>3, EndsKeeps, InstallFacts
<1>17. CASE Killed
  BY <1>17, <1>c DEF Killed
<1> QED
  BY <1>2, <1>3, <1>4, <1>5, <1>6, <1>7, <1>8, <1>9, <1>10, <1>11, <1>12, <1>13, <1>14, <1>15,
     <1>16, <1>17 DEF ScriptStep

LEMMA InstallStep == InstallInv /\ [InstallNext]_installVars => InstallInv'
<1> SUFFICES ASSUME InstallInv, [InstallNext]_installVars
             PROVE  InstallInv'
  OBVIOUS
<1>1. CASE DaemonInitialises \/ DaemonOpens \/ DaemonSettles
  <2>1. UNCHANGED <<cmd, disk, saved, svc, ran, ifaults>> /\ Running
    BY <1>1 DEF DaemonInitialises, DaemonOpens, DaemonSettles, InstallInv, HostType, InstallTypeOK
  <2>0. /\ svc.run.binary \in Versions /\ sups \subseteq Versions
        /\ sessionDb \in [schema: {"absent", "poisoned", "ready"}, compat: Versions \cup {"none"},
                         sessions: SUBSET Versions, pending: BOOLEAN]
    BY <2>1 DEF InstallInv, HostType, InstallTypeOK, RunFiles, InstalledFiles, Running
  <2>2. sups' \subseteq Versions
    BY <1>1, <2>0 DEF DaemonInitialises, DaemonOpens, DaemonSettles
  <2>3. sessionDb' \in [schema: {"absent", "poisoned", "ready"}, compat: Versions \cup {"none"},
                       sessions: SUBSET Versions, pending: BOOLEAN]
    BY <1>1, <2>0 DEF DaemonInitialises, DaemonOpens, DaemonSettles
  <2>4. HostType'
    BY <2>1, <2>2, <2>3 DEF InstallInv, HostType, InstallTypeOK
  <2> QED
    BY <2>1, <2>4 DEF InstallInv, Running
<1>2. CASE UNCHANGED installVars
  BY <1>2 DEF installVars, InstallInv, HostType, InstallTypeOK, Running, PendingOwnership
<1> QED
  BY <1>1, <1>2, CommandKeeps, ScriptKeeps DEF InstallNext

LEMMA InstallInitInv == InstallInit => InstallInv
<1> SUFFICES ASSUME InstallInit PROVE InstallInv
  OBVIOUS
<1>1. cmd = IdleCommand /\ cmd \in CommandType /\ cmd.opt \in Options
  BY InstallFacts DEF InstallInit, CommandType
<1>2. /\ disk \in InstalledFiles /\ saved \in InstalledFiles
      /\ svc.run \in RunFiles /\ svc.enabled \in BOOLEAN
  <2>1. CASE disk = NoFiles /\ svc = [run |-> NoFiles, enabled |-> FALSE]
    BY <2>1, InstallFacts DEF InstallInit
  <2>2. CASE disk = [binary |-> "old", conf |-> "old"] /\ svc = [run |-> disk, enabled |-> TRUE]
    BY <2>2, InstallFacts DEF InstallInit, InstalledFiles, Versions, RunFiles
  <2> QED
    BY <2>1, <2>2 DEF InstallInit
<1>3. /\ sessionDb \in [schema: {"absent", "poisoned", "ready"}, compat: Versions \cup {"none"},
                       sessions: SUBSET Versions, pending: BOOLEAN]
      /\ sups \subseteq Versions
  <2>1. PICK a \in {"absent", "poisoned", "ready"}, c \in {"none", "old"} :
          sessionDb = [schema |-> a, compat |-> c, sessions |-> {}, pending |-> FALSE]
    BY DEF InstallInit
  <2>2. sups = {}
    BY DEF InstallInit
  <2> QED
    BY <2>1, <2>2 DEF Versions
<1>4. ran \in 0..MaxCommand /\ ifaults \in 0..MaxFault
  BY InstallerAssumption DEF InstallInit
<1>5. HostType
  BY <1>1, <1>2, <1>3, <1>4 DEF HostType, InstallTypeOK, RunFiles
<1> QED
  BY <1>1, <1>5 DEF InstallInv, IdleCommand

(* The files and the sessions at a step: what the two action properties    *)
(* say of it.                                                              *)
LEMMA StepIsCautious ==
  ASSUME InstallInv, InstallNext
  PROVE  /\ disk'.binary \notin {disk.binary, "none"} =>
              ~PendingOwnership \/ (At("rollback") /\ Running)
         /\ disk' # disk => cmd.consent
         /\ sups \ sups' # {} => cmd.lossOk
         /\ sessionDb.sessions \ sessionDb'.sessions # {} => cmd.lossOk \/ cmd.opt.purge
<1>1. CASE CommandStep
  <2>1. HostSame
    BY <1>1 DEF CommandStep, Parse, Plan, ReadSecret, CheckRelease, Agree, Download,
       CandidateVersion, InstallCandidate
  <2> QED
    BY <2>1 DEF HostSame
<1>2. CASE DaemonInitialises \/ DaemonOpens \/ DaemonSettles
  <2>1. disk' = disk /\ sups \subseteq sups'
    BY <1>2 DEF DaemonInitialises, DaemonOpens, DaemonSettles
  <2>2. sessionDb.sessions \subseteq sessionDb'.sessions
    BY <1>2 DEF DaemonInitialises, DaemonOpens, DaemonSettles, InstallInv, HostType, InstallTypeOK
  <2> QED
    BY <2>1, <2>2
<1>3. CASE ScriptStep
  <2>1. cmd.consent \/ cmd.at \in {"idle", "plan", "check", "agree"}
    BY DEF InstallInv
  <2>2. CASE Validate \/ ResolveSupervisorVersion \/ Precheck \/ SnapshotHost \/ StopService
             \/ Recheck \/ Verify \/ Killed \/ Restart
    BY <2>2 DEF Validate, ResolveSupervisorVersion, Precheck, SnapshotHost, StopService,
       Recheck, Verify, Killed, Restart, HostSame
  <2>3. CASE Prepare
    <3>1. disk'.binary = disk.binary
      BY <2>3 DEF Prepare, InstallInv, HostType, InstallTypeOK, InstalledFiles
    <3> QED
      BY <2>1, <2>3, <3>1 DEF Prepare, At
  <2>4. CASE ReplaceBinary
    BY <2>1, <2>4 DEF ReplaceBinary, At, InstallInv
  <2>5. CASE TerminateSupervisors
    BY <2>5 DEF TerminateSupervisors, InstallInv, ClearAllSessionState
  <2>6. CASE PersistSupervisorVersion \/ PersistDeferred
    <3>1. sessionDb' \in {sessionDb, RepairInstallerState, UpsertCompat(cmd.opt.bin)}
      BY <2>6 DEF PersistSupervisorVersion, PersistDeferred
    <3>2. sessionDb'.sessions = sessionDb.sessions
      BY <3>1 DEF RepairInstallerState, UpsertCompat, InstallInv, HostType, InstallTypeOK
    <3> QED
      BY <2>6, <3>2 DEF PersistSupervisorVersion, PersistDeferred
  <2>7. CASE Rollback
    <3>1. UNCHANGED <<sessionDb, sups>> /\ cmd.consent /\ At("rollback")
      BY <2>1, <2>7 DEF Rollback, At
    <3>2. disk'.binary \in {saved.binary, disk.binary}
      BY <2>7 DEF Rollback, Partly
    <3> QED
      BY <3>1, <3>2 DEF InstallInv, At
  <2>8. CASE Uninstall
    <3>1. disk'.binary = "none" /\ sups' = sups /\ cmd.consent
      BY <2>1, <2>8 DEF Uninstall, NoFiles, At
    <3> QED
      BY <2>8, <3>1 DEF Uninstall
  <2> QED
    BY <1>3, <2>2, <2>3, <2>4, <2>5, <2>6, <2>7, <2>8 DEF ScriptStep
<1> QED
  BY <1>1, <1>2, <1>3 DEF InstallNext

(* However commands, faults and the running daemon interleave, a binary is *)
(* put in another's place only with nothing pending (but for a rollback    *)
(* under a daemon it has already started), files change only after the     *)
(* operator agreed, and sessions are lost only where that was authorised   *)
(* (commit_staged_binary, resolve_supervisor_version), for every number of *)
(* commands and faults.                                                    *)
THEOREM InstallCautious == InstallSpec => []InstallTypeOK /\ InstallIsCautious
<1>1. InstallInv => InstallTypeOK
  BY DEF InstallInv, HostType
<1>2. InstallInv /\ [InstallNext]_installVars =>
        /\ [disk'.binary \notin {disk.binary, "none"} =>
              ~PendingOwnership \/ (At("rollback") /\ Running)]_installVars
        /\ [/\ disk' # disk => cmd.consent
            /\ sups \ sups' # {} => cmd.lossOk
            /\ sessionDb.sessions \ sessionDb'.sessions # {} => cmd.lossOk \/ cmd.opt.purge]_installVars
  BY StepIsCautious DEF installVars
<1> QED
  BY <1>1, <1>2, InstallInitInv, InstallStep, PTL
     DEF InstallSpec, InstallIsCautious, ReplacedWhenQuiet, ChangesAreAuthorised
-----------------------------------------------------------------------------
(* PushNotices.                                                            *)

(* The places in a run of activities, from prev on, where a notice is due. *)
Due(prev, s) ==
  {i \in 1 .. Len(s) : ShouldNotify(IF i = 1 THEN prev ELSE s[i - 1], s[i])}

(* Where a run of activities ends. *)
LastOf(prev, s) == IF s = <<>> THEN prev ELSE s[Len(s)]

(* Unless a queue was full the queued signals lead to what the detector    *)
(* shows, and observing them pays what is owed.                            *)
SignalInv ==
  /\ shown \in States /\ previous \in States
  /\ signals \in Seq(States) /\ Len(signals) <= SignalMax
  /\ events \in Seq(States) /\ Len(events) <= EventMax
  /\ starting \in {"off", "drained", "on"}
  /\ owed \in Int /\ (starting # "on" => owed = 0)
  /\ listed /\ ~full /\ (starting = "on" \/ signals # <<>>) => LastOf(previous, signals) = shown
  /\ NoNoticeIsMissed

(* The answer in hand is about the row at the head of the list. *)
WorkerInv ==
  /\ worker = [event |-> worker.event, todo |-> worker.todo, answer |-> worker.answer]
  /\ worker.answer \in {"none", "gone", "unbuilt", "other"}
  /\ worker.answer = "gone" => Head(worker.todo)[2].ep \in dropped
  /\ worker.answer = "unbuilt" => Head(worker.todo)[2].ep \in Unbuildable

(* One row per device and one device per endpoint. *)
RowsInv ==
  /\ subs = [d \in Browsers |-> subs[d]] /\ key # 0
  /\ wanted \in [Browsers -> Endpoints \cup {0}]
  /\ \A d \in Browsers : subs[d].ep \in Endpoints \cup {0}
  /\ \A d \in Browsers : subs[d].ep = 0 => subs[d] = NoSub
  /\ \A d, e \in Browsers : d # e /\ subs[d].ep = subs[e].ep => subs[d] = NoSub
  /\ SubscriptionSurvives

PushInv == SignalInv /\ WorkerInv /\ RowsInv

(* The notices pending are the due places of the queue. *)
LEMMA PendingIsDue ==
  ASSUME NEW prev \in States, NEW s \in Seq(States)
  PROVE  /\ {i \in 1 .. Len(s) : ShouldNotify((<<prev>> \o s)[i], (<<prev>> \o s)[i + 1])} = Due(prev, s)
         /\ IsFiniteSet(Due(prev, s))
         /\ Cardinality(Due(prev, s)) \in Nat
<1> DEFINE R == <<prev>> \o s
<1>1. \A i \in 1 .. Len(s) : R[i] = (IF i = 1 THEN prev ELSE s[i - 1]) /\ R[i + 1] = s[i]
  OBVIOUS
<1>2. {i \in 1 .. Len(s) : ShouldNotify(R[i], R[i + 1])} = Due(prev, s)
  BY <1>1 DEF Due
<1>3. IsFiniteSet(1 .. Len(s))
  BY FS_Interval
<1>4. Due(prev, s) \in SUBSET (1 .. Len(s))
  BY DEF Due
<1>5. IsFiniteSet(Due(prev, s))
  BY <1>3, <1>4, FS_Subset
<1> QED
  BY <1>2, <1>5, FS_CardinalityType

(* One more activity adds its own place. *)
LEMMA DueAppends ==
  ASSUME NEW prev \in States, NEW s \in Seq(States), NEW now \in States, IsFiniteSet(Due(prev, s))
  PROVE  Cardinality(Due(prev, Append(s, now))) =
           Cardinality(Due(prev, s)) + (IF ShouldNotify(LastOf(prev, s), now) THEN 1 ELSE 0)
<1> DEFINE s2 == Append(s, now)
           n == Len(s) + 1
<1>1. n \in Nat /\ n \notin Due(prev, s)
  BY DEF Due
<1>2. \A i \in 1 .. Len(s) : s2[i] = s[i]
  OBVIOUS
<1>3. s2[n] = now /\ Len(s2) = n
  OBVIOUS
<1>4. LastOf(prev, s) = (IF n = 1 THEN prev ELSE s2[n - 1])
  BY <1>2 DEF LastOf
<1>5. Due(prev, s2) = Due(prev, s) \cup (IF ShouldNotify(LastOf(prev, s), now) THEN {n} ELSE {})
  <2>1. \A i \in 1 .. Len(s) : i \in Due(prev, s2) <=> i \in Due(prev, s)
    BY <1>2, <1>3 DEF Due
  <2>2. n \in Due(prev, s2) <=> ShouldNotify(LastOf(prev, s), now)
    BY <1>3, <1>4 DEF Due
  <2>3. Due(prev, s2) \subseteq 1 .. n /\ Due(prev, s) \subseteq 1 .. Len(s)
    BY <1>3 DEF Due
  <2> QED
    BY <2>1, <2>2, <2>3
<1>6. Cardinality(Due(prev, s)) \in Nat
  BY FS_CardinalityType
<1> HIDE DEF s2, n
<1> QED
  <2>1. CASE ShouldNotify(LastOf(prev, s), now)
    BY <2>1, <1>5, <1>1, <1>6, FS_AddElement DEF s2
  <2>2. CASE ~ShouldNotify(LastOf(prev, s), now)
    BY <2>2, <1>5, <1>6 DEF s2
  <2> QED
    BY <2>1, <2>2

(* The first activity observed takes its place away. *)
LEMMA DueTail ==
  ASSUME NEW prev \in States, NEW s \in Seq(States), s # <<>>, IsFiniteSet(Due(prev, s))
  PROVE  Cardinality(Due(Head(s), Tail(s))) =
           Cardinality(Due(prev, s)) - (IF ShouldNotify(prev, Head(s)) THEN 1 ELSE 0)
<1> DEFINE S == Due(prev, s) \ {1}
           T == Due(Head(s), Tail(s))
           f == [i \in S |-> i - 1]
<1>1. Len(s) \in Nat /\ Len(s) >= 1 /\ Len(Tail(s)) = Len(s) - 1 /\ Head(s) = s[1]
  OBVIOUS
<1>2. \A i \in 1 .. Len(s) - 1 : Tail(s)[i] = s[i + 1]
  OBVIOUS
<1>3. S \subseteq 2 .. Len(s) /\ T \subseteq 1 .. Len(s) - 1
  BY <1>1 DEF Due
<1>4. \A i \in 2 .. Len(s) : i \in S <=> i - 1 \in T
  <2> TAKE i \in 2 .. Len(s)
  <2>1. i \in S <=> ShouldNotify(s[i - 1], s[i])
    BY <1>1 DEF Due
  <2>2. i - 1 \in T <=> ShouldNotify(IF i - 1 = 1 THEN Head(s) ELSE Tail(s)[i - 2], Tail(s)[i - 1])
    <3>1. i - 1 \in 1 .. Len(Tail(s)) /\ (i - 1) - 1 = i - 2
      BY <1>1
    <3> QED
      BY <3>1 DEF Due
  <2>3. Tail(s)[i - 1] = s[i]
    BY <1>1, <1>2
  <2>4. (IF i - 1 = 1 THEN Head(s) ELSE Tail(s)[i - 2]) = s[i - 1]
    BY <1>1, <1>2
  <2> QED
    BY <2>1, <2>2, <2>3, <2>4
<1>5. f \in Bijection(S, T)
  <2>1. f \in [S -> T]
    BY <1>3, <1>4
  <2>2. \A a, b \in S : f[a] = f[b] => a = b
    BY <1>3
  <2>3. \A t \in T : \E a \in S : f[a] = t
    <3> TAKE t \in T
    <3>1. t + 1 \in 2 .. Len(s) /\ (t + 1) - 1 = t
      BY <1>1, <1>3
    <3>2. t + 1 \in S
      BY <3>1, <1>4
    <3>3. f[t + 1] = t
      BY <3>1, <3>2
    <3> QED
      BY <3>2, <3>3
  <2> HIDE DEF f
  <2> QED
    BY <2>1, <2>2, <2>3 DEF Bijection, Injection, Surjection, IsInjective
<1>6. ExistsBijection(S, T)
  BY <1>5 DEF ExistsBijection
<1>7. IsFiniteSet(S)
  BY FS_RemoveElement
<1>8. Cardinality(T) = Cardinality(S)
  BY <1>6, <1>7, FS_Bijection
<1>9. 1 \in Due(prev, s) <=> ShouldNotify(prev, Head(s))
  BY <1>1 DEF Due
<1>10. Cardinality(Due(prev, s)) \in Nat
  BY FS_CardinalityType
<1>11. Cardinality(S) = IF 1 \in Due(prev, s) THEN Cardinality(Due(prev, s)) - 1 ELSE Cardinality(Due(prev, s))
  BY FS_RemoveElement
<1> HIDE DEF S, T
<1> QED
  BY <1>8, <1>9, <1>10, <1>11 DEF T

(* Observing one activity leaves the end of the run where it is. *)
LEMMA LastOfTail ==
  ASSUME NEW prev, NEW s \in Seq(States), s # <<>>
  PROVE  LastOf(Head(s), Tail(s)) = LastOf(prev, s)
<1> DEFINE n == Len(s)
<1>1. n \in Nat /\ n >= 1
  OBVIOUS
<1>2. Tail(s) \in Seq(States) /\ Len(Tail(s)) = n - 1
  OBVIOUS
<1>3. Head(s) = s[1]
  OBVIOUS
<1>4. ASSUME n > 1
      PROVE  Tail(s)[n - 1] = s[n]
  BY <1>4
<1>5. Tail(s) = <<>> <=> n - 1 = 0
  BY <1>2
<1> HIDE DEF n
<1>6. CASE n = 1
  BY <1>3, <1>5, <1>6 DEF LastOf, n
<1>7. CASE n > 1
  BY <1>2, <1>4, <1>5, <1>7 DEF LastOf, n
<1> QED
  BY <1>1, <1>6, <1>7

LEMMA SignalStep == SignalInv /\ [PushNext]_pushVars => SignalInv'
<1> SUFFICES ASSUME SignalInv, [PushNext]_pushVars
             PROVE  SignalInv'
  OBVIOUS
<1> USE PushBounds
<1>0. /\ Pending = Cardinality(Due(previous, signals))
      /\ IsFiniteSet(Due(previous, signals)) /\ Pending \in Nat
  BY PendingIsDue DEF SignalInv, Pending
<1>q. ASSUME previous' \in States, signals' \in Seq(States)
      PROVE  /\ Pending' = Cardinality(Due(previous', signals')) /\ Pending' \in Nat
  BY <1>q, PendingIsDue DEF Pending
<1>u. ASSUME UNCHANGED <<shown, listed, signals, starting, previous, owed, full>>,
             events' \in Seq(States), Len(events') <= EventMax
      PROVE  SignalInv'
  BY <1>u DEF SignalInv, NoNoticeIsMissed, Pending
<1>e. ASSUME NEW now \in States
      PROVE  /\ Append(events, now) \in Seq(States)
             /\ Len(events) < EventMax => Len(Append(events, now)) <= EventMax
  BY DEF SignalInv
<1>1. ASSUME NEW now \in States, Publish(now)
      PROVE  SignalInv'
  <2>1. CASE Len(signals) < SignalMax
    <3>1. /\ signals' = Append(signals, now) /\ full' = full /\ shown' = now /\ previous' = previous
          /\ starting' = starting /\ listed /\ listed' = listed /\ events' = events
      BY <1>1, <2>1 DEF Publish
    <3>2. /\ signals' \in Seq(States) /\ Len(signals') <= SignalMax /\ previous' \in States
          /\ LastOf(previous', signals') = now
      BY <3>1, <2>1 DEF SignalInv, LastOf
    <3>3. /\ owed' \in Int /\ (starting' # "on" => owed' = 0)
          /\ owed' = IF starting = "on" /\ ShouldNotify(shown, now) THEN owed + 1 ELSE owed
      BY <1>1, <3>1 DEF Publish, SignalInv
    <3>4. Pending' = Pending + (IF ShouldNotify(LastOf(previous, signals), now) THEN 1 ELSE 0)
      BY <3>1, <3>2, <1>q, <1>0, DueAppends DEF SignalInv
    <3>5. NoNoticeIsMissed'
      <4> SUFFICES ASSUME ~full
                   PROVE  Pending' >= owed'
        BY <3>1 DEF NoNoticeIsMissed
      <4>1. Pending >= owed
        BY <3>1 DEF SignalInv, NoNoticeIsMissed
      <4>2. starting = "on" => LastOf(previous, signals) = shown
        BY <3>1 DEF SignalInv
      <4>3. CASE starting = "on"
        BY <4>1, <4>2, <4>3, <3>3, <3>4, <1>0 DEF SignalInv
      <4>4. CASE starting # "on"
        BY <4>1, <4>4, <3>3, <3>4, <1>0 DEF SignalInv
      <4> QED
        BY <4>3, <4>4
    <3> QED
      BY <3>1, <3>2, <3>3, <3>5 DEF SignalInv
  <2>2. CASE ~(Len(signals) < SignalMax)
    <3>1. /\ signals' = signals /\ full' = TRUE /\ shown' = now /\ previous' = previous
          /\ starting' = starting /\ events' = events
      BY <1>1, <2>2 DEF Publish
    <3>2. owed' \in Int /\ (starting' # "on" => owed' = 0)
      BY <1>1, <3>1 DEF Publish, SignalInv
    <3> QED
      BY <3>1, <3>2 DEF SignalInv, NoNoticeIsMissed
  <2> QED
    BY <2>1, <2>2
<1>2. ASSUME SessionCloses
      PROVE  SignalInv'
  BY <1>2 DEF SessionCloses, SignalInv, NoNoticeIsMissed
<1>3. ASSUME StartDrains
      PROVE  SignalInv'
  <2>1. /\ signals' = <<>> /\ starting' = "drained" /\ owed' = 0 /\ previous' = previous
        /\ shown' = shown /\ events' = events
    BY <1>3 DEF StartDrains, SignalInv
  <2>2. signals' \in Seq(States) /\ Len(signals') = 0
    BY <2>1
  <2>3. Pending' >= owed'
    BY <2>1, <2>2, <1>q DEF SignalInv
  <2> QED
    BY <2>1, <2>2, <2>3 DEF SignalInv, NoNoticeIsMissed
<1>4. ASSUME StartBaseline
      PROVE  SignalInv'
  <2>1. /\ signals' = signals /\ starting' = "on" /\ owed' = 0 /\ shown' = shown /\ events' = events
        /\ listed' = listed /\ full' = full
    BY <1>4 DEF StartBaseline, SignalInv
  <2>2. previous' \in States /\ (listed => previous' = shown)
    BY <1>4 DEF StartBaseline, SignalInv, States
  <2>3. Pending' >= owed'
    BY <2>1, <2>2, <1>q DEF SignalInv
  <2>4. listed /\ ~full => LastOf(previous', signals') = shown
    BY <2>1, <2>2 DEF SignalInv, LastOf
  <2> QED
    BY <2>1, <2>2, <2>3, <2>4 DEF SignalInv, NoNoticeIsMissed
<1>5. ASSUME Observe
      PROVE  SignalInv'
  <2>1. /\ starting = "on" /\ starting' = "on" /\ signals # <<>> /\ signals' = Tail(signals)
        /\ shown' = shown /\ listed' = listed
    BY <1>5 DEF Observe
  <2>2. /\ signals' \in Seq(States) /\ Len(signals') <= SignalMax /\ Head(signals) \in States
    BY <2>1 DEF SignalInv
  <2>3. LastOf(Head(signals), Tail(signals)) = LastOf(previous, signals)
    BY <2>1, LastOfTail DEF SignalInv
  <2>4. Cardinality(Due(Head(signals), Tail(signals))) =
          Pending - (IF ShouldNotify(previous, Head(signals)) THEN 1 ELSE 0)
    BY <2>1, <1>0, DueTail DEF SignalInv
  <2>5. CASE ~listed
    BY <1>5, <2>1, <2>2, <2>5 DEF Observe, SignalInv, NoNoticeIsMissed
  <2>6. CASE listed
    <3>1. previous' = Head(signals)
      BY <1>5, <2>6 DEF Observe, TrackerObserves
    <3>2. Pending' = Pending - (IF ShouldNotify(previous, Head(signals)) THEN 1 ELSE 0)
      BY <3>1, <2>1, <2>2, <2>4, <1>q
    <3>3. ~full => LastOf(previous', signals') = shown
      BY <3>1, <2>1, <2>3, <2>6 DEF SignalInv
    <3>4. ~full => Pending >= owed
      BY <2>6 DEF SignalInv, NoNoticeIsMissed
    <3>5. CASE ShouldNotify(previous, Head(signals)) /\ Len(events) < EventMax
      <4>1. events' = Append(events, Head(signals)) /\ owed' = owed - 1 /\ full' = full
        BY <1>5, <2>6, <3>5 DEF Observe, QueueEvent
      <4>2. ~full => Pending' >= owed'
        BY <4>1, <3>2, <3>4, <3>5, <1>0 DEF SignalInv
      <4>3. events' \in Seq(States) /\ Len(events') <= EventMax
        BY <4>1, <2>2, <3>5, <1>e
      <4>4. owed' \in Int
        BY <4>1 DEF SignalInv
      <4> QED
        BY <4>1, <4>2, <4>3, <4>4, <2>1, <2>2, <3>1, <3>3 DEF SignalInv, NoNoticeIsMissed
    <3>6. CASE ShouldNotify(previous, Head(signals)) /\ ~(Len(events) < EventMax)
      <4>1. events' = events /\ owed' = owed /\ full' = TRUE
        BY <1>5, <2>6, <3>6 DEF Observe, QueueEvent
      <4> QED
        BY <4>1, <2>1, <2>2, <3>1 DEF SignalInv, NoNoticeIsMissed
    <3>7. CASE ~ShouldNotify(previous, Head(signals))
      <4>1. events' = events /\ owed' = owed /\ full' = full
        BY <1>5, <2>6, <3>7 DEF Observe
      <4>2. ~full => Pending' >= owed'
        BY <4>1, <3>2, <3>4, <3>7, <1>0 DEF SignalInv
      <4> QED
        BY <4>1, <4>2, <2>1, <2>2, <3>1, <3>3 DEF SignalInv, NoNoticeIsMissed
    <3> QED
      BY <3>5, <3>6, <3>7
  <2> QED
    BY <2>5, <2>6
<1>6. ASSUME WorkerTakes
      PROVE  SignalInv'
  <2>1. events' \in Seq(States) /\ Len(events') <= EventMax
    BY <1>6 DEF WorkerTakes, SignalInv
  <2> QED
    BY <1>6, <1>u, <2>1 DEF WorkerTakes
<1>7. ASSUME Answered \/ WorkerHandles \/ WorkerDone
      PROVE  SignalInv'
  BY <1>7, <1>u DEF Answered, WorkerHandles, WorkerDone, SignalInv
<1>8. ASSUME NEW d, NEW e, NEW m, Upsert(d, e, m) \/ Delete(d, e) \/ EndpointDropped(e)
      PROVE  SignalInv'
  BY <1>8, <1>u DEF Upsert, Delete, EndpointDropped, SignalInv
<1>9. ASSUME PushRestart
      PROVE  SignalInv'
  <2>1. /\ shown' = "none" /\ previous' = "none" /\ signals' = <<>> /\ events' = <<>>
        /\ starting' = "off" /\ owed' = 0
    BY <1>9 DEF PushRestart
  <2>2. /\ shown' \in States /\ previous' \in States /\ signals' \in Seq(States) /\ Len(signals') = 0
        /\ events' \in Seq(States) /\ Len(events') = 0
    BY <2>1 DEF States
  <2>3. Pending' >= owed'
    BY <2>1, <2>2, <1>q
  <2> QED
    BY <2>1, <2>2, <2>3 DEF SignalInv, NoNoticeIsMissed
<1>10. ASSUME UNCHANGED pushVars
       PROVE  SignalInv'
  BY <1>10, <1>u DEF pushVars, SignalInv
<1> QED
  BY <1>1, <1>2, <1>3, <1>4, <1>5, <1>6, <1>7, <1>8, <1>9, <1>10 DEF PushNext

LEMMA WorkerStep == WorkerInv /\ [PushNext]_pushVars => WorkerInv'
<1> SUFFICES ASSUME WorkerInv, [PushNext]_pushVars
             PROVE  WorkerInv'
  OBVIOUS
<1>u. ASSUME worker' = worker, dropped \subseteq dropped'
      PROVE  WorkerInv'
  BY <1>u DEF WorkerInv
<1>i. ASSUME worker'.answer = "none", worker' = [event |-> worker'.event, todo |-> worker'.todo, answer |-> worker'.answer]
      PROVE  WorkerInv'
  BY <1>i DEF WorkerInv
<1>1. CASE WorkerTakes
  <2> DEFINE todo == SelectSeq(SetToSeq({<<d, subs[d]>> : d \in {x \in Browsers : subs[x] # NoSub}}),
                               LAMBDA row : SubscriptionAccepts(row[2].mode, Head(events)))
  <2>1. worker' = [Idle EXCEPT !.event = Head(events), !.todo = todo]
    BY <1>1 DEF WorkerTakes
  <2> HIDE DEF todo
  <2> QED
    BY <2>1, <1>i DEF Idle
<1>3. CASE WorkerDone \/ PushRestart
  BY <1>3, <1>i DEF WorkerDone, PushRestart, Idle
<1>4. CASE WorkerHandles
  BY <1>4, <1>i DEF WorkerHandles, WorkerInv
<1>2. CASE Answered
  BY <1>2 DEF Answered, BuiltAndSent, WorkerInv
<1> QED
  BY <1>1, <1>2, <1>3, <1>4, <1>u DEF PushNext, pushVars, Publish, SessionCloses, StartDrains, StartBaseline, Observe,
     Upsert, Delete, EndpointDropped

LEMMA RowsStep == WorkerInv /\ RowsInv /\ [PushNext]_pushVars => RowsInv'
<1> SUFFICES ASSUME WorkerInv, RowsInv, [PushNext]_pushVars
             PROVE  RowsInv'
  OBVIOUS
<1> USE PushBounds
<1>u. ASSUME UNCHANGED <<subs, wanted, key>>, dropped \subseteq dropped'
      PROVE  RowsInv'
  BY <1>u DEF RowsInv, SubscriptionSurvives
<1>r. ASSUME NEW d, NEW e, subs' = RemoveIfEndpoint(d, e), UNCHANGED <<key, dropped>>,
             wanted' \in [Browsers -> Endpoints \cup {0}],
             \A x \in Browsers : wanted'[x] # 0 => wanted'[x] = wanted[x],
             \A x \in Browsers : x = d /\ wanted'[x] # 0 /\ wanted'[x] = e => e \in dropped \cup Unbuildable
      PROVE  RowsInv'
  <2>1. \A x \in Browsers : subs'[x] = (IF x = d /\ subs[x].ep = e THEN NoSub ELSE subs[x])
    BY <1>r DEF RowsInv, RemoveIfEndpoint
  <2>2. subs' = [x \in Browsers |-> subs'[x]]
    BY <1>r DEF RowsInv, RemoveIfEndpoint
  <2>3. SubscriptionSurvives'
    BY <2>1, <1>r DEF RowsInv, SubscriptionSurvives
  <2> QED
    BY <2>1, <2>2, <2>3, <1>r DEF RowsInv, NoSub
<1>1. CASE WorkerHandles
  <2>1. CASE worker.answer \in {"gone", "unbuilt"}
    <3>1. Head(worker.todo)[2].ep \in dropped \cup Unbuildable
      BY <2>1 DEF WorkerInv
    <3> QED
      BY <1>1, <2>1, <3>1, <1>r DEF WorkerHandles, RowsInv
  <2>2. CASE worker.answer \notin {"gone", "unbuilt"}
    BY <1>1, <2>2, <1>u DEF WorkerHandles
  <2> QED
    BY <2>1, <2>2
<1>2. ASSUME NEW d \in Browsers, NEW e \in Endpoints, Delete(d, e)
      PROVE  RowsInv'
  <2>1. wanted' \in [Browsers -> Endpoints \cup {0}]
    BY <1>2 DEF Delete, RowsInv
  <2>2. \A x \in Browsers : wanted'[x] = IF x = d /\ wanted[x] = e THEN 0 ELSE wanted[x]
    BY <1>2 DEF Delete, RowsInv
  <2> QED
    BY <1>2, <2>1, <2>2, <1>r DEF Delete
<1>3. ASSUME NEW d \in Browsers, NEW e \in Endpoints, NEW m, Upsert(d, e, m)
      PROVE  RowsInv'
  <2>1. \A x \in Browsers : subs'[x] = (IF x = d THEN [ep |-> e, mode |-> m, key |-> key]
                                        ELSE IF subs[x].ep = e THEN NoSub ELSE subs[x])
    BY <1>3 DEF Upsert, UpsertRows
  <2>2. subs' = [x \in Browsers |-> subs'[x]]
    BY <1>3 DEF Upsert, UpsertRows
  <2>3. \A x \in Browsers : wanted'[x] = (IF x = d THEN e ELSE IF wanted[x] = e THEN 0 ELSE wanted[x])
    BY <1>3 DEF Upsert
  <2>4. wanted' \in [Browsers -> Endpoints \cup {0}]
    BY <1>3 DEF Upsert, RowsInv
  <2>5. key' = key /\ dropped' = dropped
    BY <1>3 DEF Upsert
  <2>6. SubscriptionSurvives'
    BY <2>1, <2>3, <2>5 DEF RowsInv, SubscriptionSurvives
  <2>7. \A x, y \in Browsers : x # y /\ subs'[x].ep = subs'[y].ep => subs'[x] = NoSub
    BY <2>1 DEF RowsInv, NoSub
  <2>8. \A x \in Browsers : subs'[x].ep \in Endpoints \cup {0} /\ (subs'[x].ep = 0 => subs'[x] = NoSub)
    BY <2>1 DEF RowsInv, NoSub
  <2> QED
    BY <2>2, <2>4, <2>5, <2>6, <2>7, <2>8 DEF RowsInv
<1>4. CASE PushRestart
  BY <1>4, <1>u DEF PushRestart, LoadOrCreateIdentity, RowsInv
<1> QED
  BY <1>1, <1>2, <1>3, <1>4, <1>u DEF PushNext, pushVars, Publish, SessionCloses, StartDrains, StartBaseline,
     Observe, WorkerTakes, Answered, WorkerDone, EndpointDropped

(* A notice due is queued or about to be unless a queue was full, and a    *)
(* subscription outlives late answers, late deletions and restarts         *)
(* (ActivityTracker::observe_change, remove_subscription_if_endpoint).     *)
THEOREM NoticesReach == PushSpec => [](PushTypeOK /\ NoticesArrive)
<1>1. PushInit => PushInv
  <2> SUFFICES ASSUME PushInit
               PROVE  PushInv
    OBVIOUS
  <2> USE PushBounds
  <2>1. /\ shown \in States /\ previous \in States /\ signals \in Seq(States) /\ Len(signals) = 0
        /\ events \in Seq(States) /\ Len(events) = 0
    BY DEF PushInit, States
  <2>2. Pending \in Nat
    BY <2>1, PendingIsDue DEF Pending
  <2>3. SignalInv
    BY <2>1, <2>2 DEF PushInit, SignalInv, NoNoticeIsMissed
  <2>4. WorkerInv
    BY DEF PushInit, WorkerInv, Idle
  <2>5. RowsInv
    BY DEF PushInit, RowsInv, SubscriptionSurvives, NoSub
  <2> QED
    BY <2>3, <2>4, <2>5 DEF PushInv
<1>2. PushInv /\ [PushNext]_pushVars => PushInv'
  BY SignalStep, WorkerStep, RowsStep DEF PushInv
<1>3. PushInv => PushTypeOK /\ NoticesArrive
  BY DEF PushInv, SignalInv, RowsInv, PushTypeOK, NoticesArrive
<1> QED
  BY <1>1, <1>2, <1>3, PTL DEF PushSpec
-----------------------------------------------------------------------------
(* StateFiles.                                                             *)

(* Where a daemon has its database in view, holds the lock, has opened its *)
(* lock file.                                                              *)
DbPcs == {"dbcreated", "dbchmod", "sidecars", "verify", "sqlite", "open"}
HeldPcs == {"dbparent", "dbfile"} \cup DbPcs
LockPcs == {"locksecure", "flock"} \cup HeldPcs
FilePcs == {"start", "lockfile", "refused"} \cup LockPcs

FilesType ==
  /\ inode \in [Inodes -> [kind : Kinds \cup {"none"}, own : Users, wr : Writes]]
  /\ entry \in [Inodes -> [EntryNames -> Inodes \cup {0}]]
  /\ meddled \in 0 .. MaxMeddle
  /\ fpc \in [Daemons -> FilePcs]
  /\ fd \in [Daemons -> [parent : Inodes \cup {0}, lock : Inodes \cup {0}]]
  /\ seen \in [Daemons -> Inodes \cup {0}]
  /\ opened \in [Daemons -> Inodes \cup {0}]
  /\ flocked \in [Inodes -> Daemons \cup {"free"}]

(* There is always room for one more inode: the neighbour makes one each   *)
(* time, a daemon a lock file and a database.                              *)
PastLock == {d \in Daemons : fpc[d] \notin {"start", "lockfile"}}
PastDb == {d \in Daemons : fpc[d] \notin {"start", "lockfile", "locksecure", "flock", "dbparent", "dbfile"}}
RoomLeft == Cardinality(Used) <= 4 + meddled + Cardinality(PastLock) + Cardinality(PastDb)

Linked == /\ inode[Anc].kind = "dir"
          /\ \A i \in Inodes, n \in EntryNames : entry[i][n] # 0 => inode[entry[i][n]].kind # "none"

(* The state directory is ours, and reached through an ancestor that keeps *)
(* it in place.                                                            *)
Settled == TrustedAncestor(Anc) /\ ParentNow # 0 /\ PrivateParent(ParentNow)

DaemonInv(d) ==
  /\ fpc[d] \notin {"start", "refused"} => Settled /\ fd[d].parent = ParentNow
  /\ fpc[d] \in LockPcs => fd[d].lock # 0 /\ fd[d].lock = entry[ParentNow]["lock"]
  /\ fpc[d] \in HeldPcs => flocked[fd[d].lock] = d
  /\ fpc[d] \in DbPcs =>
       /\ seen[d] # 0 /\ seen[d] = entry[ParentNow]["db"] /\ OwnFile(seen[d])
       /\ fpc[d] # "dbchmod" => inode[seen[d]].wr = "private"
  /\ opened[d] # 0 => fpc[d] = "open" /\ opened[d] = seen[d]

FilesInv ==
  /\ FilesType /\ RoomLeft /\ Linked
  /\ \A d \in Daemons : DaemonInv(d)

(* One step: nothing that is there changes but for being made private, one *)
(* more inode may appear, and a settled directory loses no entry.          *)
FilesKeep ==
  /\ \A i \in Inodes : inode[i].kind # "none" =>
       /\ inode'[i].kind = inode[i].kind /\ inode'[i].own = inode[i].own
       /\ inode'[i].wr \in {inode[i].wr, "private"}
  /\ Settled => /\ ParentNow' = ParentNow
                /\ \A n \in EntryNames : entry[ParentNow][n] # 0 => entry'[ParentNow][n] = entry[ParentNow][n]

LEMMA InodesAreMany ==
  /\ Inodes \subseteq Nat \ {0} /\ {1, 2, 3, 4} \subseteq Inodes
  /\ IsFiniteSet(Inodes) /\ Cardinality(Daemons) \in Nat
  /\ Cardinality(Inodes) = 4 + 3 * Cardinality(Daemons) + MaxMeddle
<1>1. Cardinality(Daemons) \in Nat
  BY FS_CardinalityType, StateFilesAssumption
<1> DEFINE N == 4 + 3 * Cardinality(Daemons) + MaxMeddle
<1>2. N \in Nat /\ N >= 4
  BY <1>1, StateFilesAssumption
<1>3. Inodes = 1 .. N
  BY DEF Inodes
<1> HIDE DEF N
<1>4. IsFiniteSet(Inodes) /\ Cardinality(Inodes) = N
  BY <1>2, <1>3, FS_Interval
<1> QED
  BY <1>1, <1>2, <1>3, <1>4 DEF N

LEMMA FreshIsNew ==
  ASSUME FilesType, RoomLeft,
         \/ meddled < MaxMeddle
         \/ \E d \in Daemons : fpc[d] \in {"lockfile", "dbfile"}
  PROVE  /\ Fresh \in Inodes /\ inode[Fresh].kind = "none"
         /\ IsFiniteSet(Used) /\ Cardinality(Used) \in Nat
<1>1. PastLock \in SUBSET Daemons /\ PastDb \in SUBSET Daemons
  BY DEF PastLock, PastDb
<1>2. IsFiniteSet(PastLock) /\ IsFiniteSet(PastDb)
  BY <1>1, FS_Subset, StateFilesAssumption
<1>3. Cardinality(PastLock) <= Cardinality(Daemons) /\ Cardinality(PastDb) <= Cardinality(Daemons)
  BY <1>1, FS_Subset, StateFilesAssumption
<1>4. Cardinality(PastLock) \in Nat /\ Cardinality(PastDb) \in Nat
  BY <1>2, FS_CardinalityType
<1>5. Used \in SUBSET Inodes
  BY DEF Used
<1>6. IsFiniteSet(Used)
  BY <1>5, FS_Subset, InodesAreMany
<1>7. Cardinality(Used) \in Nat
  BY <1>6, FS_CardinalityType
<1>8. Inodes \ Used # {}
  <2> SUFFICES ASSUME Inodes \ Used = {}
               PROVE  FALSE
    OBVIOUS
  <2>1. Used = Inodes
    BY <1>5
  <2>2. 4 + 3 * Cardinality(Daemons) + MaxMeddle <= 4 + meddled + Cardinality(PastLock) + Cardinality(PastDb)
    BY <2>1, InodesAreMany DEF RoomLeft
  <2>3. meddled \in Nat /\ meddled <= MaxMeddle /\ MaxMeddle \in Nat /\ Cardinality(Daemons) \in Nat
    BY InodesAreMany, StateFilesAssumption DEF FilesType
  <2>4. CASE meddled < MaxMeddle
    BY <2>2, <2>3, <2>4, <1>3, <1>4
  <2>5. CASE \E d \in Daemons : fpc[d] \in {"lockfile", "dbfile"}
    <3>1. Daemons # {}
      BY <2>5
    <3>2. Cardinality(Daemons) # 0
      BY <3>1, FS_EmptySet, StateFilesAssumption
    <3> QED
      BY <3>2, <2>2, <2>3, <1>3, <1>4
  <2> QED
    BY <2>4, <2>5
<1>9. PICK m \in Inodes \ Used : \A k \in Inodes \ Used : m <= k
  <2>1. Inodes \ Used \in SUBSET Nat
    BY InodesAreMany
  <2> QED
    BY <2>1, <1>8, LeastNat
<1>10. Fresh \in Inodes \ Used
  BY <1>9 DEF Fresh
<1> QED
  BY <1>6, <1>7, <1>10 DEF Used

LEMMA FilesTypeStep == FilesInv /\ [FilesNext]_fileVars => FilesType'
<1> SUFFICES ASSUME FilesInv, [FilesNext]_fileVars
             PROVE  FilesType'
  OBVIOUS
<1> DEFINE Table == [Inodes -> [kind : Kinds \cup {"none"}, own : Users, wr : Writes]]
           EntryTables == [Inodes -> [EntryNames -> Inodes \cup {0}]]
           Fds == [Daemons -> [parent : Inodes \cup {0}, lock : Inodes \cup {0}]]
           SeenTables == [Daemons -> Inodes \cup {0}]
           Holders == [Inodes -> Daemons \cup {"free"}]
<1>0. /\ FilesType /\ RoomLeft
      /\ inode \in Table /\ entry \in EntryTables /\ fd \in Fds /\ seen \in SeenTables /\ opened \in SeenTables /\ flocked \in Holders
      /\ meddled \in 0 .. MaxMeddle /\ fpc \in [Daemons -> FilePcs]
  BY DEF FilesInv, FilesType
<1>c. ASSUME fpc' \in [Daemons -> FilePcs], meddled' \in 0 .. MaxMeddle,
             inode' \in Table, entry' \in EntryTables, fd' \in Fds, seen' \in SeenTables, opened' \in SeenTables, flocked' \in Holders
      PROVE  FilesType'
  BY <1>c DEF FilesType
<1>t. ASSUME NEW d, NEW pc \in FilePcs, To(d, pc)
      PROVE  fpc' \in [Daemons -> FilePcs]
  BY <1>t, <1>0 DEF To
<1>f. ASSUME NEW k \in Kinds, NEW o \in Users, NEW w \in Writes, NEW i \in Inodes
      PROVE  [inode EXCEPT ![i] = [kind |-> k, own |-> o, wr |-> w]] \in Table
  BY <1>0
<1>w. ASSUME NEW i
      PROVE  [inode EXCEPT ![i].wr = "private"] \in Table
  BY ZenonT(30), <1>0 DEF Writes
<1>e. ASSUME NEW i, NEW n, NEW j \in Inodes \cup {0}
      PROVE  [entry EXCEPT ![i][n] = j] \in EntryTables
  BY <1>0
<1>p1. ParentNow \in Inodes \cup {0}
  BY <1>0, InodesAreMany DEF ParentNow, Anc, EntryNames
<1>p2. \A n \in EntryNames : InParent(n) \in Inodes \cup {0}
  BY <1>0, <1>p1 DEF InParent
<1>m. ASSUME NEW k \in Kinds, Fresh \in Inodes
      PROVE  Made(k) \in Table
  BY <1>f, <1>m DEF Made, Users, Writes
<1>l. ASSUME NEW d
      PROVE  [i \in Inodes |-> IF flocked[i] = d THEN "free" ELSE flocked[i]] \in Holders
  BY <1>0
<1> HIDE DEF Table, EntryTables, Fds, SeenTables, Holders
<1>pc. /\ "refused" \in FilePcs /\ "lockfile" \in FilePcs /\ "locksecure" \in FilePcs /\ "flock" \in FilePcs
       /\ "dbparent" \in FilePcs /\ "dbfile" \in FilePcs /\ "dbcreated" \in FilePcs /\ "dbchmod" \in FilePcs
       /\ "sidecars" \in FilePcs /\ "verify" \in FilePcs /\ "sqlite" \in FilePcs /\ "open" \in FilePcs
  BY DEF FilePcs, LockPcs, HeldPcs, DbPcs
<1>r. ASSUME NEW d \in Daemons, Refuses(d), UNCHANGED meddled
      PROVE  FilesType'
  <2>1. fpc' \in [Daemons -> FilePcs]
    BY <1>r, <1>t, <1>pc DEF Refuses
  <2>2. flocked' \in Holders
    BY <1>r, <1>l DEF Refuses
  <2> QED
    BY <2>1, <2>2, <1>r, <1>c, <1>0 DEF Refuses
<1>1. CASE Meddle
  <2>1. meddled' \in 0 .. MaxMeddle
    <3>1. meddled < MaxMeddle /\ meddled' = meddled + 1
      BY <1>1 DEF Meddle
    <3> QED
      BY <3>1, <1>0, StateFilesAssumption
  <2>2. Fresh \in Inodes
    BY <1>1, <1>0, FreshIsNew DEF Meddle
  <2>3. PICK dir \in Inodes, n \in EntryNames :
          \/ entry' = [entry EXCEPT ![dir][n] = 0] /\ inode' = inode
          \/ \E k \in Kinds :
               /\ entry' = [entry EXCEPT ![dir][n] = Fresh]
               /\ inode' = [inode EXCEPT ![Fresh] = [kind |-> k, own |-> "them", wr |-> "open"]]
    BY <1>1 DEF Meddle
  <2>4. entry' \in EntryTables
    <3>1. CASE entry' = [entry EXCEPT ![dir][n] = 0]
      BY <3>1, <1>e
    <3>2. CASE entry' = [entry EXCEPT ![dir][n] = Fresh]
      BY <3>2, <2>2, <1>e
    <3> QED
      BY <2>3, <3>1, <3>2
  <2>5. inode' \in Table
    BY <2>2, <2>3, <1>f, <1>0 DEF Users, Writes
  <2> QED
    BY <1>1, <2>1, <2>4, <2>5, <1>0, <1>c DEF Meddle
<1>2. ASSUME NEW d \in Daemons, LockOpensParent(d) \/ DbOpensParent(d), ~Refuses(d)
      PROVE  FilesType'
  <2>1. /\ To(d, "lockfile") \/ To(d, "dbfile")
        /\ fd' = [fd EXCEPT ![d].parent = ParentNow]
        /\ UNCHANGED <<inode, entry, seen, opened, flocked, meddled>>
    BY <1>2 DEF LockOpensParent, DbOpensParent
  <2>2. fd' \in Fds
    BY <2>1, <1>0, <1>p1 DEF Fds
  <2> QED
    BY <2>1, <2>2, <1>0, <1>c, <1>t, <1>pc
<1>3. ASSUME NEW d \in Daemons, LockOpensFile(d), ~Refuses(d)
      PROVE  FilesType'
  <2> DEFINE is == entry[fd[d].parent]["lock"]
  <2>1. Fresh \in Inodes
    BY <1>3, <1>0, FreshIsNew DEF LockOpensFile
  <2>2. is \in Inodes \cup {0}
    <3>1. fd[d].parent = ParentNow /\ ParentNow # 0
      BY <1>3 DEF LockOpensFile, FilesInv, DaemonInv, Settled
    <3> QED
      BY <3>1, <1>p1, <1>0 DEF EntryTables, EntryNames
  <2>3. /\ inode' = inode \/ inode' = Made("file")
        /\ entry' = entry \/ entry' = [entry EXCEPT ![fd[d].parent]["lock"] = Fresh]
        /\ \E j \in {Fresh, is} : fd' = [fd EXCEPT ![d].lock = j]
        /\ To(d, "locksecure") /\ UNCHANGED <<seen, opened, flocked, meddled>>
    BY <1>3 DEF LockOpensFile
  <2> HIDE DEF is
  <2>4. fd' \in Fds
    BY <2>1, <2>2, <2>3, <1>0 DEF Fds
  <2>5. inode' \in Table
    BY <2>1, <2>3, <1>0, <1>m DEF Kinds
  <2>6. entry' \in EntryTables
    <3>1. CASE entry' = [entry EXCEPT ![fd[d].parent]["lock"] = Fresh]
      BY <3>1, <2>1, <1>e
    <3> QED
      BY <2>3, <3>1, <1>0
  <2> QED
    BY <2>3, <2>4, <2>5, <2>6, <1>0, <1>c, <1>t, <1>pc
<1>4. ASSUME NEW d \in Daemons, LockSecures(d) \/ DbRestricts(d) \/ DbSidecars(d), ~Refuses(d)
      PROVE  FilesType'
  <2>1. /\ inode' = inode \/ \E i : inode' = [inode EXCEPT ![i].wr = "private"]
        /\ To(d, "flock") \/ To(d, "sidecars") \/ To(d, "verify")
        /\ UNCHANGED <<entry, fd, seen, opened, flocked, meddled>>
    BY <1>4 DEF LockSecures, DbRestricts, DbSidecars
  <2>2. inode' \in Table
    BY <2>1, <1>0, <1>w
  <2> QED
    BY <2>1, <2>2, <1>0, <1>c, <1>t, <1>pc
<1>5. ASSUME NEW d \in Daemons, LockTakes(d), ~Refuses(d)
      PROVE  FilesType'
  <2>1. /\ flocked' = [flocked EXCEPT ![fd[d].lock] = d]
        /\ To(d, "dbparent") /\ UNCHANGED <<inode, entry, fd, seen, opened, meddled>>
    BY <1>5 DEF LockTakes
  <2>2. flocked' \in Holders
    BY <2>1, <1>0 DEF Holders
  <2> QED
    BY <2>1, <2>2, <1>0, <1>c, <1>t, <1>pc
<1>6. ASSUME NEW d \in Daemons, DbCreates(d)
      PROVE  FilesType'
  <2>0. Fresh \in Inodes
    BY <1>6, <1>0, FreshIsNew DEF DbCreates
  <2>1. seen' \in SeenTables
    BY <1>6, <2>0, <1>0 DEF DbCreates, SeenTables
  <2>2. inode' \in Table
    BY <1>6, <2>0, <1>m DEF DbCreates, Kinds
  <2>3. entry' \in EntryTables
    BY <1>6, <2>0, <1>e DEF DbCreates
  <2>4. fpc' \in [Daemons -> FilePcs]
    BY <1>6, <1>t, <1>pc DEF DbCreates
  <2> QED
    BY <1>6, <2>1, <2>2, <2>3, <2>4, <1>0, <1>c DEF DbCreates
<1>7. ASSUME NEW d \in Daemons, DbCreatedIsThere(d) \/ DbVerifies(d), ~Refuses(d)
      PROVE  FilesType'
  <2>1. /\ To(d, "sidecars") \/ To(d, "sqlite")
        /\ UNCHANGED <<inode, entry, fd, seen, opened, flocked, meddled>>
    BY <1>7 DEF DbCreatedIsThere, DbVerifies
  <2> QED
    BY <2>1, <1>0, <1>c, <1>t, <1>pc
<1>8. ASSUME NEW d \in Daemons, DbExists(d) \/ DbOpens(d), ~Refuses(d)
      PROVE  FilesType'
  <2> DEFINE i == InParent("db")
  <2>1. /\ seen' = seen \/ seen' = [seen EXCEPT ![d] = i]
        /\ opened' = opened \/ opened' = [opened EXCEPT ![d] = i]
        /\ To(d, "dbchmod") \/ To(d, "open")
        /\ UNCHANGED <<inode, entry, fd, flocked, meddled>>
    BY <1>8 DEF DbExists, DbOpens
  <2>2. i \in Inodes \cup {0}
    BY <1>p2 DEF EntryNames
  <2> HIDE DEF i
  <2>3. seen' \in SeenTables /\ opened' \in SeenTables
    BY <2>1, <2>2, <1>0 DEF SeenTables
  <2> QED
    BY <2>1, <2>3, <1>0, <1>c, <1>t, <1>pc
<1>9. ASSUME NEW d \in Daemons, DaemonExits(d)
      PROVE  FilesType'
  <2>1. opened' \in SeenTables
    BY <1>9, <1>0 DEF DaemonExits, SeenTables
  <2>2. flocked' \in Holders
    BY <1>9, <1>l DEF DaemonExits
  <2> QED
    BY <1>9, <2>1, <2>2, <1>0, <1>c, <1>t, <1>pc DEF DaemonExits
<1>10. CASE UNCHANGED fileVars
  BY <1>10, <1>0, <1>c DEF fileVars
<1>11. \A d \in Daemons : \/ LockOpensParent(d) \/ LockOpensFile(d) \/ LockSecures(d) \/ LockTakes(d)
                          \/ DbOpensParent(d) \/ DbCreatedIsThere(d) \/ DbExists(d) \/ DbRestricts(d)
                          \/ DbSidecars(d) \/ DbVerifies(d) \/ DbOpens(d)
                          => meddled' = meddled
  BY DEF LockOpensParent, LockOpensFile, LockSecures, LockTakes, DbOpensParent, DbCreatedIsThere, DbExists,
         DbRestricts, DbSidecars, DbVerifies, DbOpens
<1> QED
  BY <1>1, <1>2, <1>3, <1>4, <1>5, <1>6, <1>7, <1>8, <1>9, <1>10, <1>11, <1>r DEF FilesNext

LEMMA FilesKeepStep == FilesInv /\ [FilesNext]_fileVars => FilesKeep /\ Linked'
<1> SUFFICES ASSUME FilesInv, [FilesNext]_fileVars
             PROVE  FilesKeep /\ Linked'
  OBVIOUS
<1>0. /\ FilesType /\ RoomLeft /\ Linked
      /\ inode \in [Inodes -> [kind : Kinds \cup {"none"}, own : Users, wr : Writes]]
      /\ entry \in [Inodes -> [EntryNames -> Inodes \cup {0}]]
      /\ Anc \in Inodes /\ "parent" \in EntryNames /\ 0 \notin Inodes
  BY InodesAreMany DEF FilesInv, FilesType, Anc, EntryNames
<1>u. ASSUME UNCHANGED entry, inode' = inode \/ \E i : inode' = [inode EXCEPT ![i].wr = "private"]
      PROVE  FilesKeep /\ Linked'
  <2>1. \A i \in Inodes : /\ inode'[i].kind = inode[i].kind /\ inode'[i].own = inode[i].own
                          /\ inode'[i].wr \in {inode[i].wr, "private"}
    BY <1>0, <1>u
  <2>2. FilesKeep
    BY <2>1, <1>u DEF FilesKeep, ParentNow
  <2>3. Linked'
    BY <2>1, <1>u, <1>0 DEF Linked
  <2> QED
    BY <2>2, <2>3
<1>n. ASSUME NEW dir \in Inodes, NEW n \in EntryNames, NEW j \in Inodes \cup {0},
             entry' = [entry EXCEPT ![dir][n] = j],
             \A i \in Inodes : inode[i].kind # "none" => inode'[i] = inode[i],
             j # 0 => inode'[j].kind # "none",
             Settled => dir # ParentNow \/ entry[dir][n] = 0,
             Settled => dir # Anc \/ n # "parent"
      PROVE  FilesKeep /\ Linked'
  <2>1. \A i \in Inodes, m \in EntryNames : entry'[i][m] = IF i = dir /\ m = n THEN j ELSE entry[i][m]
    BY <1>n, <1>0
  <2>2. Linked'
    BY <2>1, <1>n, <1>0 DEF Linked
  <2>3. Settled => ParentNow' = ParentNow /\ ParentNow \in Inodes
    BY <2>1, <1>n, <1>0 DEF ParentNow, Settled
  <2>4. FilesKeep
    BY <2>1, <2>3, <1>n, <1>0 DEF FilesKeep
  <2> QED
    BY <2>2, <2>4
<1>m. ASSUME NEW k, NEW o, NEW w, k # "none", Fresh \in Inodes, inode[Fresh].kind = "none",
             inode' = [inode EXCEPT ![Fresh] = [kind |-> k, own |-> o, wr |-> w]]
      PROVE  /\ inode'[Fresh].kind # "none"
             /\ \A i \in Inodes : inode[i].kind # "none" => inode'[i] = inode[i]
  BY <1>m, <1>0
<1>1. CASE Meddle
  <2>1. PICK dir \in Inodes, n \in EntryNames :
          /\ inode[dir].kind = "dir" /\ (dir = Anc) = (n = "parent") /\ MayChange(dir, n)
          /\ \/ entry' = [entry EXCEPT ![dir][n] = 0] /\ inode' = inode
             \/ \E k \in Kinds :
                  /\ entry' = [entry EXCEPT ![dir][n] = Fresh]
                  /\ inode' = [inode EXCEPT ![Fresh] = [kind |-> k, own |-> "them", wr |-> "open"]]
    BY <1>1 DEF Meddle
  <2>2. Fresh \in Inodes /\ inode[Fresh].kind = "none"
    BY <1>1, <1>0, FreshIsNew DEF Meddle
  <2>3. Settled => dir # ParentNow
    BY <2>1 DEF Settled, PrivateParent, MayChange
  <2>4. Settled => dir # Anc \/ n # "parent"
    BY <2>1, <1>0 DEF Settled, TrustedAncestor, PrivateParent, MayChange, ParentNow
  <2>5. CASE entry' = [entry EXCEPT ![dir][n] = 0] /\ inode' = inode
    BY <2>3, <2>4, <2>5, <1>n
  <2>6. ASSUME NEW k \in Kinds, entry' = [entry EXCEPT ![dir][n] = Fresh],
               inode' = [inode EXCEPT ![Fresh] = [kind |-> k, own |-> "them", wr |-> "open"]]
        PROVE  FilesKeep /\ Linked'
    <3>1. k # "none"
      BY DEF Kinds
    <3>2. /\ inode'[Fresh].kind # "none"
          /\ \A i \in Inodes : inode[i].kind # "none" => inode'[i] = inode[i]
      BY <3>1, <2>2, <2>6, <1>m
    <3> QED
      BY <3>2, <2>2, <2>3, <2>4, <2>6, <1>n
  <2> QED
    BY <2>1, <2>5, <2>6
<1>2. ASSUME NEW d \in Daemons, LockOpensFile(d) \/ DbCreates(d), inode' # inode
      PROVE  FilesKeep /\ Linked'
  <2>1. /\ inode' = [inode EXCEPT ![Fresh] = [kind |-> "file", own |-> "us", wr |-> "private"]]
        /\ \E n \in {"lock", "db"} : /\ entry[fd[d].parent][n] = 0
                                     /\ entry' = [entry EXCEPT ![fd[d].parent][n] = Fresh]
        /\ fpc[d] \in {"lockfile", "dbfile"}
    BY <1>2 DEF LockOpensFile, DbCreates, Made, Refuses
  <2>2. Fresh \in Inodes /\ inode[Fresh].kind = "none"
    BY <2>1, <1>0, FreshIsNew
  <2>3. /\ inode'[Fresh].kind # "none"
        /\ \A i \in Inodes : inode[i].kind # "none" => inode'[i] = inode[i]
    BY <2>1, <2>2, <1>m
  <2>4. fd[d].parent \in Inodes
    BY <2>1, <1>0 DEF FilesInv, DaemonInv, Settled, ParentNow
  <2>5. PICK n \in {"lock", "db"} : /\ entry[fd[d].parent][n] = 0
                                    /\ entry' = [entry EXCEPT ![fd[d].parent][n] = Fresh]
    BY <2>1
  <2>6. n \in EntryNames /\ n # "parent"
    BY DEF EntryNames
  <2> QED
    BY <2>2, <2>3, <2>4, <2>5, <2>6, <1>n
<1>3. ASSUME NEW d \in Daemons, LockOpensFile(d) \/ DbCreates(d), inode' = inode
      PROVE  FilesKeep /\ Linked'
  <2>1. fpc[d] \in {"lockfile", "dbfile"}
    BY <1>3 DEF LockOpensFile, DbCreates
  <2>2. Fresh \in Inodes /\ inode[Fresh].kind = "none"
    BY <2>1, <1>0, FreshIsNew
  <2>3. inode # Made("file")
    BY <2>2, <1>0 DEF Made
  <2> QED
    BY <1>3, <2>3, <1>u DEF LockOpensFile, DbCreates, Refuses
<1>4. ASSUME NEW d \in Daemons,
             \/ LockOpensParent(d) \/ LockSecures(d) \/ LockTakes(d)
             \/ DbOpensParent(d) \/ DbCreatedIsThere(d) \/ DbExists(d) \/ DbRestricts(d)
             \/ DbSidecars(d) \/ DbVerifies(d) \/ DbOpens(d) \/ DaemonExits(d)
      PROVE  FilesKeep /\ Linked'
  <2>1. UNCHANGED entry /\ (inode' = inode \/ \E i : inode' = [inode EXCEPT ![i].wr = "private"])
    BY <1>4 DEF LockOpensParent, LockSecures, LockTakes, DbOpensParent, DbCreatedIsThere, DbExists,
                DbRestricts, DbSidecars, DbVerifies, DbOpens, DaemonExits, Refuses
  <2> QED
    BY <2>1, <1>u
<1>5. CASE UNCHANGED fileVars
  BY <1>5, <1>u DEF fileVars
<1> QED
  BY <1>1, <1>2, <1>3, <1>4, <1>5 DEF FilesNext

(* A daemon that has come past a point stays past it. *)
LEMMA PastGrows ==
  ASSUME FilesType, FilesType', PastLock \subseteq PastLock', PastDb \subseteq PastDb'
  PROVE  /\ Cardinality(PastLock) \in Nat /\ Cardinality(PastDb) \in Nat
         /\ Cardinality(PastLock') \in Nat /\ Cardinality(PastDb') \in Nat
         /\ Cardinality(PastLock) + (IF PastLock = PastLock' THEN 0 ELSE 1) <= Cardinality(PastLock')
         /\ Cardinality(PastDb) + (IF PastDb = PastDb' THEN 0 ELSE 1) <= Cardinality(PastDb')
<1>1. PastLock' \in SUBSET Daemons /\ PastDb' \in SUBSET Daemons
  BY DEF PastLock, PastDb
<1>2. IsFiniteSet(PastLock') /\ IsFiniteSet(PastDb')
  BY <1>1, FS_Subset, StateFilesAssumption
<1>3. ASSUME NEW S, NEW T, S \subseteq T, IsFiniteSet(T)
      PROVE  /\ Cardinality(S) \in Nat /\ Cardinality(T) \in Nat
             /\ Cardinality(S) + (IF S = T THEN 0 ELSE 1) <= Cardinality(T)
  <2>1. S \in SUBSET T
    BY <1>3
  <2>2. IsFiniteSet(S)
    BY <2>1, <1>3, FS_Subset
  <2>3. Cardinality(S) \in Nat /\ Cardinality(T) \in Nat
    BY <2>2, <1>3, FS_CardinalityType
  <2>4. Cardinality(S) <= Cardinality(T) /\ (Cardinality(T) = Cardinality(S) => T = S)
    BY <2>1, <1>3, FS_Subset
  <2> QED
    BY <2>3, <2>4
<1> QED
  BY <1>2, <1>3

LEMMA RoomStep == FilesInv /\ [FilesNext]_fileVars => RoomLeft'
<1> SUFFICES ASSUME FilesInv, [FilesNext]_fileVars
             PROVE  RoomLeft'
  OBVIOUS
<1>0. /\ FilesType /\ RoomLeft /\ FilesType'
      /\ inode \in [Inodes -> [kind : Kinds \cup {"none"}, own : Users, wr : Writes]]
      /\ fpc \in [Daemons -> FilePcs] /\ meddled \in Nat
  BY FilesTypeStep DEF FilesInv, FilesType
<1>2. PastLock \subseteq PastLock' /\ PastDb \subseteq PastDb'
  <2>1. ASSUME NEW d \in Daemons, NEW pc, To(d, pc),
               fpc[d] \notin {"start", "lockfile"} => pc \notin {"start", "lockfile"},
               fpc[d] \notin {"start", "lockfile", "locksecure", "flock", "dbparent", "dbfile"}
                 => pc \notin {"start", "lockfile", "locksecure", "flock", "dbparent", "dbfile"}
        PROVE  PastLock \subseteq PastLock' /\ PastDb \subseteq PastDb'
    BY <2>1, <1>0 DEF PastLock, PastDb, To
  <2>2. CASE fpc' = fpc
    BY <2>2 DEF PastLock, PastDb
  <2>3. CASE Meddle \/ UNCHANGED fileVars
    BY <2>2, <2>3 DEF Meddle, fileVars
  <2>4. ASSUME NEW d \in Daemons, Refuses(d)
        PROVE  PastLock \subseteq PastLock' /\ PastDb \subseteq PastDb'
    BY <2>4, <2>1 DEF Refuses
  <2>5. ASSUME NEW d \in Daemons, LockOpensParent(d) \/ LockOpensFile(d) \/ LockSecures(d) \/ LockTakes(d)
        PROVE  PastLock \subseteq PastLock' /\ PastDb \subseteq PastDb'
    BY <2>5, <2>1, <2>4 DEF LockOpensParent, LockOpensFile, LockSecures, LockTakes
  <2>6. ASSUME NEW d \in Daemons, DbOpensParent(d) \/ DbCreates(d) \/ DbCreatedIsThere(d) \/ DbExists(d) \/ DbRestricts(d)
        PROVE  PastLock \subseteq PastLock' /\ PastDb \subseteq PastDb'
    BY <2>6, <2>1, <2>4 DEF DbOpensParent, DbCreates, DbCreatedIsThere, DbExists, DbRestricts
  <2>7. ASSUME NEW d \in Daemons, DbSidecars(d) \/ DbVerifies(d) \/ DbOpens(d) \/ DaemonExits(d)
        PROVE  PastLock \subseteq PastLock' /\ PastDb \subseteq PastDb'
    BY <2>7, <2>1, <2>4 DEF DbSidecars, DbVerifies, DbOpens, DaemonExits
  <2> QED
    BY <2>3, <2>5, <2>6, <2>7 DEF FilesNext
<1>3. /\ Cardinality(PastLock) \in Nat /\ Cardinality(PastDb) \in Nat
      /\ Cardinality(PastLock') \in Nat /\ Cardinality(PastDb') \in Nat
      /\ Cardinality(PastLock) + (IF PastLock = PastLock' THEN 0 ELSE 1) <= Cardinality(PastLock')
      /\ Cardinality(PastDb) + (IF PastDb = PastDb' THEN 0 ELSE 1) <= Cardinality(PastDb')
  BY <1>0, <1>2, PastGrows
<1>4. IsFiniteSet(Used) /\ Cardinality(Used) \in Nat
  <2>1. Used \in SUBSET Inodes
    BY DEF Used
  <2>2. IsFiniteSet(Used)
    BY <2>1, FS_Subset, InodesAreMany
  <2> QED
    BY <2>2, FS_CardinalityType
<1>5. ASSUME inode' = inode \/ \E i : inode' = [inode EXCEPT ![i].wr = "private"], meddled' = meddled
      PROVE  RoomLeft'
  <2>1. \A i \in Inodes : inode'[i].kind = inode[i].kind
    BY <1>0, <1>5
  <2>2. Used' = Used
    BY <2>1 DEF Used
  <2> QED
    BY <2>2, <1>5, <1>3, <1>4, <1>0 DEF RoomLeft
<1>6. ASSUME NEW x, Fresh \in Inodes, inode[Fresh].kind = "none", x.kind # "none",
             inode' = [inode EXCEPT ![Fresh] = x]
      PROVE  Cardinality(Used') = Cardinality(Used) + 1
  <2>1. \A i \in Inodes : inode'[i] = IF i = Fresh THEN x ELSE inode[i]
    BY <1>6, <1>0
  <2>2. Used' = Used \cup {Fresh} /\ Fresh \notin Used
    BY <2>1, <1>6 DEF Used
  <2> QED
    BY <2>2, <1>4, FS_AddElement
<1>7. CASE Meddle
  <2>1. meddled' = meddled + 1 /\ meddled < MaxMeddle
    BY <1>7 DEF Meddle
  <2>2. Fresh \in Inodes /\ inode[Fresh].kind = "none"
    BY <2>1, <1>0, FreshIsNew
  <2>3. CASE inode' = inode
    <3>1. Used' = Used
      BY <2>3 DEF Used
    <3> QED
      BY <3>1, <2>1, <1>3, <1>4, <1>0 DEF RoomLeft
  <2>4. ASSUME NEW k \in Kinds, inode' = [inode EXCEPT ![Fresh] = [kind |-> k, own |-> "them", wr |-> "open"]]
        PROVE  RoomLeft'
    <3>1. k # "none"
      BY DEF Kinds
    <3>2. Cardinality(Used') = Cardinality(Used) + 1
      BY <3>1, <2>2, <2>4, <1>6
    <3> QED
      BY <3>2, <2>1, <1>3, <1>4, <1>0 DEF RoomLeft
  <2> QED
    BY <1>7, <2>3, <2>4 DEF Meddle
<1>8. ASSUME NEW d \in Daemons, LockOpensFile(d) \/ DbCreates(d), inode' # inode
      PROVE  RoomLeft'
  <2>1. /\ inode' = [inode EXCEPT ![Fresh] = [kind |-> "file", own |-> "us", wr |-> "private"]]
        /\ meddled' = meddled
        /\ \/ fpc[d] = "lockfile" /\ To(d, "locksecure")
           \/ fpc[d] = "dbfile" /\ To(d, "dbcreated")
    BY <1>8 DEF LockOpensFile, DbCreates, Made, Refuses
  <2>2. Fresh \in Inodes /\ inode[Fresh].kind = "none"
    BY <2>1, <1>0, FreshIsNew
  <2>3. Cardinality(Used') = Cardinality(Used) + 1
    BY <2>1, <2>2, <1>6
  <2>4. PastLock # PastLock' \/ PastDb # PastDb'
    <3>1. CASE fpc[d] = "lockfile" /\ fpc'[d] = "locksecure"
      BY <3>1 DEF PastLock
    <3>2. CASE fpc[d] = "dbfile" /\ fpc'[d] = "dbcreated"
      BY <3>2 DEF PastDb
    <3> QED
      BY <2>1, <3>1, <3>2, <1>0 DEF To
  <2> QED
    BY <2>1, <2>3, <2>4, <1>3, <1>4, <1>0 DEF RoomLeft
<1>9. ASSUME NEW d \in Daemons,
             \/ LockOpensParent(d) \/ LockSecures(d) \/ LockTakes(d)
             \/ DbOpensParent(d) \/ DbCreatedIsThere(d) \/ DbExists(d) \/ DbRestricts(d)
             \/ DbSidecars(d) \/ DbVerifies(d) \/ DbOpens(d) \/ DaemonExits(d)
      PROVE  RoomLeft'
  <2>1. meddled' = meddled /\ (inode' = inode \/ \E i : inode' = [inode EXCEPT ![i].wr = "private"])
    BY <1>9 DEF LockOpensParent, LockSecures, LockTakes, DbOpensParent, DbCreatedIsThere, DbExists,
                DbRestricts, DbSidecars, DbVerifies, DbOpens, DaemonExits, Refuses
  <2> QED
    BY <2>1, <1>5
<1>10. ASSUME NEW d \in Daemons, LockOpensFile(d) \/ DbCreates(d), inode' = inode
       PROVE  RoomLeft'
  BY <1>10, <1>5 DEF LockOpensFile, DbCreates
<1>11. CASE UNCHANGED fileVars
  BY <1>11, <1>5 DEF fileVars
<1> QED
  BY <1>7, <1>8, <1>9, <1>10, <1>11 DEF FilesNext

(* A settled directory stays settled. *)
LEMMA SettledStays ==
  ASSUME FilesInv, FilesKeep, Settled
  PROVE  Settled' /\ ParentNow' = ParentNow /\ ParentNow \in Inodes
<1>0. /\ entry \in [Inodes -> [EntryNames -> Inodes \cup {0}]]
      /\ Anc \in Inodes /\ "parent" \in EntryNames /\ inode[Anc].kind = "dir"
  BY InodesAreMany DEF FilesInv, FilesType, Anc, EntryNames, Linked
<1>1. ParentNow' = ParentNow /\ ParentNow \in Inodes
  BY <1>0 DEF FilesKeep, Settled, ParentNow
<1>2. TrustedAncestor(Anc)'
  BY <1>0 DEF FilesKeep, Settled, TrustedAncestor
<1>3. inode[ParentNow].kind = "dir" /\ inode[ParentNow].own = "us" /\ inode[ParentNow].wr = "private"
  BY DEF Settled, PrivateParent
<1>4. PrivateParent(ParentNow)'
  BY <1>1, <1>3 DEF FilesKeep, PrivateParent
<1> QED
  BY <1>1, <1>2, <1>4 DEF Settled

(* What a step leaves of a daemon that does not take it. *)
LEMMA OtherDaemonKeeps ==
  ASSUME FilesInv, FilesType', FilesKeep, NEW d \in Daemons,
         fpc'[d] = fpc[d], fd'[d] = fd[d], seen'[d] = seen[d], opened'[d] = opened[d],
         fpc[d] \in HeldPcs => flocked'[fd[d].lock] = d
  PROVE  DaemonInv(d)'
<1>0. /\ inode \in [Inodes -> [kind : Kinds \cup {"none"}, own : Users, wr : Writes]]
      /\ entry \in [Inodes -> [EntryNames -> Inodes \cup {0}]] /\ DaemonInv(d)
      /\ Anc \in Inodes /\ "lock" \in EntryNames /\ "db" \in EntryNames /\ "parent" \in EntryNames
      /\ inode[Anc].kind = "dir" /\ seen[d] \in Inodes \cup {0}
  BY InodesAreMany DEF FilesInv, FilesType, Anc, EntryNames, Linked
<1>1. Settled => Settled' /\ ParentNow' = ParentNow
  BY SettledStays
<1>2. fpc[d] \in LockPcs => fpc[d] \notin {"start", "refused"}
  BY DEF LockPcs, HeldPcs, DbPcs
<1>3. fpc[d] \in DbPcs => fpc[d] \in LockPcs
  BY DEF LockPcs, HeldPcs, DbPcs
<1>4. fpc[d] \in LockPcs => fd[d].lock # 0 /\ fd[d].lock = entry'[ParentNow]["lock"]
  BY <1>0, <1>2 DEF DaemonInv, FilesKeep
<1>5. fpc[d] \in DbPcs => seen[d] # 0 /\ seen[d] = entry'[ParentNow]["db"]
  BY <1>0, <1>2, <1>3 DEF DaemonInv, FilesKeep
<1>6. fpc[d] \in DbPcs => /\ OwnFile(seen[d])'
                          /\ fpc[d] # "dbchmod" => inode'[seen[d]].wr = "private"
  BY <1>0 DEF DaemonInv, FilesKeep, OwnFile
<1> QED
  BY <1>0, <1>1, <1>2, <1>3, <1>4, <1>5, <1>6 DEF DaemonInv, OwnFile

LEMMA DaemonsStep == FilesInv /\ [FilesNext]_fileVars => \A d \in Daemons : DaemonInv(d)'
<1> SUFFICES ASSUME FilesInv, [FilesNext]_fileVars
             PROVE  \A d \in Daemons : DaemonInv(d)'
  OBVIOUS
<1>0. /\ FilesType /\ FilesType' /\ RoomLeft /\ FilesKeep /\ \A d \in Daemons : DaemonInv(d)
      /\ inode \in [Inodes -> [kind : Kinds \cup {"none"}, own : Users, wr : Writes]]
      /\ entry \in [Inodes -> [EntryNames -> Inodes \cup {0}]]
      /\ fpc \in [Daemons -> FilePcs] /\ seen \in [Daemons -> Inodes \cup {0}]
      /\ fd \in [Daemons -> [parent : Inodes \cup {0}, lock : Inodes \cup {0}]]
      /\ opened \in [Daemons -> Inodes \cup {0}] /\ flocked \in [Inodes -> Daemons \cup {"free"}]
      /\ 0 \notin Inodes /\ "lock" \in EntryNames /\ "db" \in EntryNames /\ "free" \notin Daemons
  BY FilesTypeStep, FilesKeepStep, InodesAreMany, StateFilesAssumption DEF FilesInv, FilesType, EntryNames
<1>u. ASSUME UNCHANGED <<fpc, fd, seen, opened, flocked>>
      PROVE  \A d \in Daemons : DaemonInv(d)'
  BY <1>u, <1>0, OtherDaemonKeeps DEF DaemonInv
<1>o. ASSUME NEW c \in Daemons, NEW d \in Daemons, d # c,
             \E pc : To(c, pc),
             fd' = fd \/ \E x : fd' = [fd EXCEPT ![c].parent = x] \/ fd' = [fd EXCEPT ![c].lock = x],
             seen' = seen \/ \E x : seen' = [seen EXCEPT ![c] = x],
             opened' = opened \/ \E x : opened' = [opened EXCEPT ![c] = x],
             \/ flocked' = flocked
             \/ flocked' = [i \in Inodes |-> IF flocked[i] = c THEN "free" ELSE flocked[i]]
             \/ flocked[fd[c].lock] = "free" /\ flocked' = [flocked EXCEPT ![fd[c].lock] = c]
      PROVE  DaemonInv(d)'
  <2>1. fpc'[d] = fpc[d]
    BY <1>o, <1>0 DEF To
  <2>2. fd'[d] = fd[d] /\ seen'[d] = seen[d] /\ opened'[d] = opened[d]
    BY <1>o, <1>0
  <2>3. fpc[d] \in HeldPcs => flocked[fd[d].lock] = d /\ fd[d].lock \in Inodes
    BY <1>0 DEF DaemonInv, LockPcs
  <2>4. fpc[d] \in HeldPcs => flocked'[fd[d].lock] = d
    BY <2>3, <1>o, <1>0
  <2> QED
    BY <2>1, <2>2, <2>4, <1>0, OtherDaemonKeeps
<1>r. ASSUME NEW c \in Daemons, Refuses(c), fpc[c] # "open"
      PROVE  \A d \in Daemons : DaemonInv(d)'
  <2>1. ASSUME NEW d \in Daemons, d # c
        PROVE  DaemonInv(d)'
    BY <2>1, <1>r, <1>o DEF Refuses
  <2>2. opened'[c] = 0 /\ fpc'[c] = "refused"
    BY <1>r, <1>0 DEF Refuses, To, DaemonInv
  <2>3. DaemonInv(c)'
    BY <2>2 DEF DaemonInv, LockPcs, HeldPcs, DbPcs
  <2> QED
    BY <2>1, <2>3
<1>s. ASSUME NEW c \in Daemons, fpc[c] \notin {"start", "refused"}
      PROVE  /\ Settled /\ Settled' /\ ParentNow' = ParentNow /\ ParentNow \in Inodes /\ fd[c].parent = ParentNow
             /\ \A n \in EntryNames : InParent(n) = entry[ParentNow][n] /\ entry[ParentNow][n] \in Inodes \cup {0}
             /\ \A n \in EntryNames : entry[ParentNow][n] # 0 => entry'[ParentNow][n] = entry[ParentNow][n]
  <2>1. Settled /\ fd[c].parent = ParentNow
    BY <1>s, <1>0 DEF DaemonInv
  <2>2. Settled' /\ ParentNow' = ParentNow /\ ParentNow \in Inodes
    BY <2>1, <1>0, SettledStays
  <2>3. ParentNow # 0
    BY <2>1 DEF Settled
  <2>4. \A n \in EntryNames : InParent(n) = entry[ParentNow][n] /\ entry[ParentNow][n] \in Inodes \cup {0}
    BY <2>2, <2>3, <1>0 DEF InParent
  <2>5. \A n \in EntryNames : entry[ParentNow][n] # 0 => entry'[ParentNow][n] = entry[ParentNow][n]
    BY <2>1, <1>0 DEF FilesKeep
  <2> QED
    BY <2>1, <2>2, <2>4, <2>5
<1>1. ASSUME NEW c \in Daemons, LockOpensParent(c), ~Refuses(c)
      PROVE  DaemonInv(c)'
  <2>1. /\ Settled /\ fpc[c] = "start" /\ fpc'[c] = "lockfile" /\ fd'[c].parent = ParentNow /\ opened' = opened
    BY <1>1, <1>0 DEF LockOpensParent, DirAt, ParentNow, Settled, To
  <2>2. Settled' /\ ParentNow' = ParentNow
    BY <2>1, <1>0, SettledStays
  <2>3. opened[c] = 0
    BY <2>1, <1>0 DEF DaemonInv
  <2> QED
    BY <2>1, <2>2, <2>3 DEF DaemonInv, LockPcs, HeldPcs, DbPcs
<1>2. ASSUME NEW c \in Daemons, LockOpensFile(c), ~Refuses(c)
      PROVE  DaemonInv(c)'
  <2>1. /\ fpc[c] = "lockfile" /\ fpc'[c] = "locksecure" /\ opened' = opened
        /\ fd'[c].parent = fd[c].parent /\ opened[c] = 0
    BY <1>2, <1>0 DEF LockOpensFile, To, DaemonInv
  <2>2. /\ Settled /\ Settled' /\ ParentNow' = ParentNow /\ ParentNow \in Inodes /\ fd[c].parent = ParentNow
        /\ entry[ParentNow]["lock"] \in Inodes \cup {0}
        /\ entry[ParentNow]["lock"] # 0 => entry'[ParentNow]["lock"] = entry[ParentNow]["lock"]
    BY <2>1, <1>s, <1>0
  <2>3. fd'[c].lock # 0 /\ fd'[c].lock = entry'[ParentNow]["lock"]
    <3>1. CASE entry[ParentNow]["lock"] = 0
      <4>1. /\ fd' = [fd EXCEPT ![c].lock = Fresh]
            /\ entry' = [entry EXCEPT ![ParentNow]["lock"] = Fresh]
        BY <1>2, <2>2, <3>1 DEF LockOpensFile
      <4>2. Fresh \in Inodes
        BY <2>1, <1>0, FreshIsNew
      <4> QED
        BY <4>1, <4>2, <2>2, <1>0
    <3>2. CASE entry[ParentNow]["lock"] # 0
      <4>1. fd' = [fd EXCEPT ![c].lock = entry[ParentNow]["lock"]]
        BY <1>2, <2>2, <3>2 DEF LockOpensFile
      <4> QED
        BY <4>1, <3>2, <2>2, <1>0
    <3> QED
      BY <3>1, <3>2
  <2> QED
    BY <2>1, <2>2, <2>3 DEF DaemonInv, LockPcs, HeldPcs, DbPcs
<1>3. ASSUME NEW c \in Daemons, LockSecures(c) \/ LockTakes(c) \/ DbOpensParent(c), ~Refuses(c)
      PROVE  DaemonInv(c)'
  <2>1. /\ fpc[c] \in {"locksecure", "flock", "dbparent"} /\ opened' = opened /\ fd'[c].lock = fd[c].lock
        /\ fpc'[c] = (CASE fpc[c] = "locksecure" -> "flock" [] fpc[c] = "flock" -> "dbparent" [] OTHER -> "dbfile")
        /\ fd'[c].parent \in {fd[c].parent, ParentNow}
        /\ fpc[c] = "flock" => flocked' = [flocked EXCEPT ![fd[c].lock] = c]
        /\ fpc[c] # "flock" => flocked' = flocked
    BY <1>3, <1>0 DEF LockSecures, LockTakes, DbOpensParent, To
  <2>2. /\ Settled' /\ ParentNow' = ParentNow /\ fd[c].parent = ParentNow
        /\ entry[ParentNow]["lock"] # 0 => entry'[ParentNow]["lock"] = entry[ParentNow]["lock"]
    BY <2>1, <1>s, <1>0
  <2>3. /\ fd[c].lock # 0 /\ fd[c].lock = entry[ParentNow]["lock"] /\ opened[c] = 0
        /\ fd[c].lock \in Inodes
    BY <2>1, <1>0 DEF DaemonInv, LockPcs, HeldPcs, DbPcs
  <2>4. fpc'[c] \in HeldPcs => flocked'[fd'[c].lock] = c
    BY <2>1, <2>3, <1>0 DEF DaemonInv, HeldPcs, DbPcs
  <2>5. fpc'[c] \notin {"start", "refused", "open"} \cup DbPcs
    BY <2>1 DEF DbPcs
  <2> QED
    BY <2>1, <2>2, <2>3, <2>4, <2>5 DEF DaemonInv
<1>4. ASSUME NEW c \in Daemons, fpc[c] \in HeldPcs, fpc'[c] \in HeldPcs, fd' = fd, flocked' = flocked,
             fpc'[c] \in DbPcs =>
               /\ seen'[c] # 0 /\ seen'[c] = entry'[ParentNow]["db"] /\ OwnFile(seen[c])'
               /\ fpc'[c] # "dbchmod" => inode'[seen'[c]].wr = "private",
             opened'[c] # 0 => fpc'[c] = "open" /\ opened'[c] = seen'[c]
      PROVE  DaemonInv(c)'
  <2>1. fpc[c] \in LockPcs /\ fpc[c] \notin {"start", "refused"}
    BY <1>4 DEF LockPcs, HeldPcs, DbPcs
  <2>2. /\ Settled' /\ ParentNow' = ParentNow /\ fd[c].parent = ParentNow
        /\ entry[ParentNow]["lock"] # 0 => entry'[ParentNow]["lock"] = entry[ParentNow]["lock"]
    BY <2>1, <1>s, <1>0
  <2>3. fd[c].lock # 0 /\ fd[c].lock = entry[ParentNow]["lock"] /\ flocked[fd[c].lock] = c
    BY <2>1, <1>4, <1>0 DEF DaemonInv
  <2> QED
    BY <1>4, <2>2, <2>3 DEF DaemonInv
<1>5. ASSUME NEW c \in Daemons, DbCreates(c)
      PROVE  DaemonInv(c)'
  <2>1. /\ fpc[c] = "dbfile" /\ fpc'[c] = "dbcreated" /\ opened' = opened /\ fd' = fd /\ flocked' = flocked
        /\ opened[c] = 0 /\ seen' = [seen EXCEPT ![c] = Fresh] /\ inode' = Made("file")
        /\ entry' = [entry EXCEPT ![fd[c].parent]["db"] = Fresh]
    BY <1>5, <1>0 DEF DbCreates, To, DaemonInv
  <2>2. Fresh \in Inodes /\ fd[c].parent = ParentNow /\ ParentNow \in Inodes
    BY <2>1, <1>0, <1>s, FreshIsNew
  <2>3. seen'[c] = Fresh /\ entry'[ParentNow]["db"] = Fresh
    BY <2>1, <2>2, <1>0
  <2>4. inode'[Fresh].kind = "file" /\ inode'[Fresh].own = "us" /\ inode'[Fresh].wr = "private"
    BY <2>1, <2>2, <1>0 DEF Made
  <2>5. OwnFile(seen[c])'
    BY <2>3, <2>4 DEF OwnFile
  <2>6. fpc[c] \in HeldPcs /\ fpc'[c] \in HeldPcs
    BY <2>1 DEF HeldPcs, DbPcs
  <2> QED
    BY <2>1, <2>2, <2>3, <2>4, <2>5, <2>6, <1>4, <1>0
<1>6. ASSUME NEW c \in Daemons, DbExists(c), ~Refuses(c)
      PROVE  DaemonInv(c)'
  <2>1. /\ fpc[c] = "dbfile" /\ fpc'[c] = "dbchmod" /\ opened' = opened /\ fd' = fd /\ flocked' = flocked
        /\ opened[c] = 0 /\ seen' = [seen EXCEPT ![c] = InParent("db")] /\ inode' = inode /\ entry' = entry
        /\ InParent("db") # 0 /\ OwnFile(InParent("db"))
    BY <1>6, <1>0 DEF DbExists, To, DaemonInv
  <2>2. InParent("db") = entry[ParentNow]["db"]
    BY <2>1, <1>0, <1>s
  <2>3. seen'[c] = entry[ParentNow]["db"] /\ OwnFile(seen[c])'
    BY <2>1, <2>2, <1>0 DEF OwnFile
  <2>4. fpc[c] \in HeldPcs /\ fpc'[c] \in HeldPcs
    BY <2>1 DEF HeldPcs, DbPcs
  <2> QED
    BY <2>1, <2>2, <2>3, <2>4, <1>4
<1>7. ASSUME NEW c \in Daemons,
             DbCreatedIsThere(c) \/ DbRestricts(c) \/ DbSidecars(c) \/ DbVerifies(c) \/ DbOpens(c), ~Refuses(c)
      PROVE  DaemonInv(c)'
  <2>1. /\ fpc[c] \in DbPcs \ {"open"} /\ fd' = fd /\ flocked' = flocked /\ seen' = seen /\ entry' = entry
        /\ fpc'[c] \in DbPcs \ {"dbchmod"}
        /\ fpc[c] = "dbchmod" => inode' = [inode EXCEPT ![seen[c]].wr = "private"]
        /\ IF fpc'[c] = "open" THEN opened' = [opened EXCEPT ![c] = InParent("db")] ELSE opened' = opened
    BY <1>7, <1>0 DEF DbCreatedIsThere, DbRestricts, DbSidecars, DbVerifies, DbOpens, To, DbPcs
  <2>2. /\ seen[c] \in Inodes /\ seen[c] = entry[ParentNow]["db"] /\ OwnFile(seen[c]) /\ opened[c] = 0
        /\ fpc[c] # "dbchmod" => inode[seen[c]].wr = "private"
    BY <2>1, <1>0 DEF DaemonInv
  <2>3. fpc[c] \in HeldPcs /\ fpc'[c] \in HeldPcs /\ fpc[c] \notin {"start", "refused"}
    BY <2>1 DEF HeldPcs, DbPcs
  <2>4. InParent("db") = seen[c]
    BY <2>2, <2>3, <1>0, <1>s
  <2>5. inode'[seen[c]].kind = "file" /\ inode'[seen[c]].own = "us" /\ inode'[seen[c]].wr = "private"
    BY <2>1, <2>2, <1>0 DEF FilesKeep, OwnFile
  <2>6. OwnFile(seen[c])'
    BY <2>1, <2>5 DEF OwnFile
  <2>7. opened'[c] # 0 => fpc'[c] = "open" /\ opened'[c] = seen'[c]
    BY <2>1, <2>2, <2>4, <1>0
  <2> QED
    BY <2>1, <2>2, <2>3, <2>5, <2>6, <2>7, <1>4, <1>0
<1>8. ASSUME NEW c \in Daemons, DaemonExits(c)
      PROVE  DaemonInv(c)'
  <2>1. fpc'[c] = "refused" /\ opened'[c] = 0
    BY <1>8, <1>0 DEF DaemonExits, To
  <2> QED
    BY <2>1 DEF DaemonInv, LockPcs, HeldPcs, DbPcs
<1>9. ASSUME NEW c \in Daemons, NEW d \in Daemons, d # c, ~Refuses(c),
             \/ LockOpensParent(c) \/ LockOpensFile(c) \/ LockSecures(c) \/ LockTakes(c)
             \/ DbOpensParent(c) \/ DbCreates(c) \/ DbCreatedIsThere(c) \/ DbExists(c) \/ DbRestricts(c)
             \/ DbSidecars(c) \/ DbVerifies(c) \/ DbOpens(c) \/ DaemonExits(c)
      PROVE  DaemonInv(d)'
  <2>1. CASE LockOpensParent(c) \/ LockOpensFile(c) \/ LockSecures(c) \/ LockTakes(c) \/ DbOpensParent(c)
    BY <2>1, <1>9, <1>o DEF LockOpensParent, LockOpensFile, LockSecures, LockTakes, DbOpensParent
  <2>2. CASE DbCreates(c) \/ DbCreatedIsThere(c) \/ DbExists(c) \/ DbRestricts(c)
    BY <2>2, <1>9, <1>o DEF DbCreates, DbCreatedIsThere, DbExists, DbRestricts
  <2>3. CASE DbSidecars(c) \/ DbVerifies(c) \/ DbOpens(c) \/ DaemonExits(c)
    BY <2>3, <1>9, <1>o DEF DbSidecars, DbVerifies, DbOpens, DaemonExits
  <2> QED
    BY <1>9, <2>1, <2>2, <2>3
<1>10. ASSUME NEW c \in Daemons,
             \/ LockOpensParent(c) \/ LockOpensFile(c) \/ LockSecures(c) \/ LockTakes(c)
             \/ DbOpensParent(c) \/ DbCreates(c) \/ DbCreatedIsThere(c) \/ DbExists(c) \/ DbRestricts(c)
             \/ DbSidecars(c) \/ DbVerifies(c) \/ DbOpens(c) \/ DaemonExits(c)
      PROVE  \A d \in Daemons : DaemonInv(d)'
  <2>1. CASE Refuses(c) /\ fpc[c] # "open"
    BY <2>1, <1>r
  <2>2. CASE fpc[c] = "open"
    <3>1. DaemonExits(c)
      BY <1>10, <2>2 DEF LockOpensParent, LockOpensFile, LockSecures, LockTakes, DbOpensParent, DbCreates,
           DbCreatedIsThere, DbExists, DbRestricts, DbSidecars, DbVerifies, DbOpens
    <3>2. ASSUME NEW d \in Daemons, d # c
          PROVE  DaemonInv(d)'
      BY <3>1, <3>2, <1>o DEF DaemonExits
    <3> QED
      BY <3>1, <3>2, <1>8
  <2>3. CASE ~Refuses(c) /\ fpc[c] # "open"
    <3>1. DaemonInv(c)'
      BY <1>10, <2>3, <1>1, <1>2, <1>3, <1>5, <1>6, <1>7, <1>8
    <3>2. \A d \in Daemons : d # c => DaemonInv(d)'
      BY <1>10, <2>3, <1>9
    <3> QED
      BY <3>1, <3>2
  <2> QED
    BY <2>1, <2>2, <2>3
<1>11. CASE Meddle \/ UNCHANGED fileVars
  BY <1>11, <1>u DEF Meddle, fileVars
<1> QED
  BY <1>10, <1>11 DEF FilesNext

(* Whatever a neighbour does between two checks, SQLite opens the daemon's *)
(* own private file, the one that was checked, and two daemons never have  *)
(* the state open at once (DaemonStateLock::acquire, open_state_connection),*)
(* for any number of daemons and of changes by the neighbour.              *)
THEOREM StateIsKept == FilesSpec => [](FilesTypeOK /\ StateIsOurs)
<1>1. FilesInit => FilesInv
  <2> SUFFICES ASSUME FilesInit
               PROVE  FilesInv
    OBVIOUS
  <2>0. Inodes \subseteq Nat \ {0} /\ {1, 2, 3, 4} \subseteq Inodes
    BY InodesAreMany
  <2>1. PICK a \in [own : Users, wr : Writes], p \in [own : Users, wr : {"private", "open"}],
             there \in BOOLEAN, old \in BOOLEAN, k \in {"file", "link"} :
         /\ old => there /\ p.own = "us"
         /\ inode = [i \in Inodes |->
               CASE i = Anc -> [kind |-> "dir", own |-> a.own, wr |-> a.wr]
                 [] i = Parent /\ there -> [kind |-> "dir", own |-> p.own, wr |-> p.wr]
                 [] i = 3 /\ old -> [kind |-> "file", own |-> "us", wr |-> "open"]
                 [] i = 4 /\ old -> [kind |-> k, own |-> "us", wr |-> "open"]
                 [] OTHER -> NoInode]
         /\ entry = [i \in Inodes |-> [n \in EntryNames |->
               CASE i = Anc /\ n = "parent" /\ there -> Parent
                 [] i = Parent /\ n = "db" /\ old -> 3
                 [] i = Parent /\ n = "lock" /\ old -> 4
                 [] OTHER -> 0]]
    BY DEF FilesInit
  <2>2. \A i \in Inodes : /\ inode[i] \in [kind : Kinds \cup {"none"}, own : Users, wr : Writes]
                          /\ i \notin {1, 2, 3, 4} => inode[i].kind = "none"
    <3> TAKE i \in Inodes
    <3>1. a.own \in Users /\ a.wr \in Writes /\ p.own \in Users /\ p.wr \in Writes
      BY DEF Writes
    <3> QED
      BY <2>1, <3>1 DEF Anc, Parent, NoInode, Kinds, Users, Writes
  <2>3. \A i \in Inodes, n \in EntryNames : entry[i][n] \in {0, 2, 3, 4}
    BY <2>1 DEF Anc, Parent
  <2>4. /\ inode \in [Inodes -> [kind : Kinds \cup {"none"}, own : Users, wr : Writes]]
        /\ entry \in [Inodes -> [EntryNames -> Inodes \cup {0}]]
    <3>1. inode \in [Inodes -> [kind : Kinds \cup {"none"}, own : Users, wr : Writes]]
      BY <2>1, <2>2
    <3>2. \A i \in Inodes : entry[i] = [n \in EntryNames |-> entry[i][n]]
      BY <2>1
    <3>3. \A i \in Inodes : entry[i] \in [EntryNames -> Inodes \cup {0}]
      BY ZenonT(30), <2>0, <2>3, <3>2
    <3>4. entry \in [Inodes -> [EntryNames -> Inodes \cup {0}]]
      BY <2>1, <3>3
    <3> QED
      BY <3>1, <3>4
  <2>5. FilesType
    BY <2>0, <2>4, StateFilesAssumption DEF FilesInit, FilesType, FilePcs
  <2>6. RoomLeft
    <3>1. Used \in SUBSET (1 .. 4)
      BY <2>2 DEF Used
    <3>2. IsFiniteSet(1 .. 4) /\ Cardinality(1 .. 4) = 4
      <4>1. Cardinality(1 .. 4) = IF 1 > 4 THEN 0 ELSE 4 - 1 + 1
        BY FS_Interval, 1 \in Int, 4 \in Int
      <4>2. IsFiniteSet(1 .. 4)
        BY FS_Interval, 1 \in Int, 4 \in Int
      <4> QED
        BY <4>1, <4>2
    <3>3. Cardinality(Used) <= 4
      <4>1. Cardinality(Used) <= Cardinality(1 .. 4)
        BY <3>1, <3>2, FS_Subset
      <4> QED
        BY <4>1, <3>2
    <3>4. PastLock = {} /\ PastDb = {}
      BY DEF FilesInit, PastLock, PastDb
    <3>5. IsFiniteSet(Used)
      BY <3>1, <3>2, FS_Subset
    <3>6. Cardinality(Used) \in Nat
      BY <3>5, FS_CardinalityType
    <3>7. Cardinality(PastLock) = 0 /\ Cardinality(PastDb) = 0
      BY <3>4, FS_EmptySet
    <3> QED
      BY <3>3, <3>6, <3>7 DEF FilesInit, RoomLeft
  <2>7. Linked
    <3>1. inode[1].kind = "dir"
      BY <2>0, <2>1 DEF Anc
    <3>2. \A i \in Inodes, n \in EntryNames :
            /\ entry[i][n] = 2 => there
            /\ entry[i][n] \in {3, 4} => old
      BY <2>1 DEF Anc, Parent
    <3>3. /\ there => inode[2].kind = "dir"
          /\ old => inode[3].kind = "file" /\ inode[4].kind = k
      BY <2>0, <2>1 DEF Anc, Parent
    <3>4. k # "none"
      OBVIOUS
    <3> QED
      BY <3>1, <3>2, <3>3, <3>4, <2>3 DEF Linked, Anc
  <2>8. \A d \in Daemons : DaemonInv(d)
    BY DEF FilesInit, DaemonInv, LockPcs, HeldPcs, DbPcs
  <2> QED
    BY <2>5, <2>6, <2>7, <2>8 DEF FilesInv
<1>2. FilesInv /\ [FilesNext]_fileVars => FilesInv'
  BY FilesTypeStep, RoomStep, FilesKeepStep, DaemonsStep DEF FilesInv
<1>3. FilesInv => FilesTypeOK /\ StateIsOurs
  <2> SUFFICES ASSUME FilesInv
               PROVE  FilesTypeOK /\ StateIsOurs
    OBVIOUS
  <2>1. FilesTypeOK
    BY DEF FilesInv, FilesType, FilesTypeOK
  <2>2. DatabaseIsOurs
    BY DEF FilesInv, DaemonInv, DatabaseIsOurs, DbPcs
  <2>3. OneDaemon
    BY DEF FilesInv, DaemonInv, OneDaemon, LockPcs, HeldPcs, DbPcs
  <2> QED
    BY <2>1, <2>2, <2>3 DEF StateIsOurs
<1> QED
  BY <1>1, <1>2, <1>3, PTL DEF FilesSpec
----------------------------------------------------------------------------
(* The state file of termctl *)

CtlPoints == {"idle", "opens", "creates", "writes", "syncs", "renames", "settles",
              "sends", "waits", "answered"}
CtlEntries == [id : Hosts, url : Urls, cert : 0..MaxDevice]
CtlStates == [device : 0..MaxDevice, servers : Seq(CtlEntries), default : Hosts \cup {NoServer}]
CtlFiles == [owner : {"us", "nobody"}, private : BOOLEAN, body : CtlStates \cup {Torn},
             synced : BOOLEAN]
CtlRuns == [at : CtlPoints, mem : CtlStates, temp : CtlFiles, stage : {"device", "final"},
            server : Hosts \cup {NoServer}, url : Urls \cup {"no url"}]

(* What a process has in memory has been read, or will be written, whole. *)
CtlType ==
  /\ ctl \in [Ctls -> CtlRuns]
  /\ folder \in [above : Directories, own : Directories]
  /\ ctlSafe \subseteq CtlFiles /\ ctlFile \in ctlSafe
  /\ asked \subseteq [server : Hosts, device : 1..MaxDevice, url : Urls]
  /\ trusting \in [Hosts -> SUBSET (1..MaxDevice)]
  /\ paired \subseteq Hosts /\ overlapped \in BOOLEAN /\ brokenOff \in BOOLEAN
  /\ devices \in 0..MaxDevice

(* A state with one entry per daemon, whose certificates are its device's, *)
(* from daemons that accepted it (tr) and can be reached at the address.   *)
GoodState(st, tr) ==
  /\ \A i \in DOMAIN st.servers :
       st.servers[i].cert # 0 =>
          /\ st.servers[i].cert = st.device
          /\ st.device \in tr[st.servers[i].id]
          /\ st.servers[i].id \in Leads[st.servers[i].url]
  /\ \A i, j \in DOMAIN st.servers : st.servers[i].id = st.servers[j].id => i = j

(* What holds of a process x whatever runs at the same time: it works on a *)
(* good state, and renames a file that is whole and synced.                *)
WholeRun(x, fo, tr) ==
  /\ GoodState(x.mem, tr)
  /\ x.at # "idle" => x.mem.device # 0 /\ x.server \in Hosts /\ x.url \in Urls
  /\ x.at = "answered" => x.mem.device \in tr[x.server] /\ x.server \in Leads[x.url]
  /\ x.at \in {"creates", "writes", "syncs", "renames", "settles"} => fo.own # NoPath
  /\ x.at \in {"syncs", "renames"} => x.temp.body = x.mem
  /\ x.at = "renames" => x.temp.synced
  /\ x.at = "settles" => x.temp = NoState

WholeFile(f, tr) == f.synced /\ f.body \in CtlStates /\ GoodState(f.body, tr)

WholeInv ==
  /\ \A f \in ctlSafe : WholeFile(f, trusting)
  /\ folder.own = NoPath => ctlSafe = {NoState}
  /\ \A p \in Ctls : WholeRun(ctl[p], folder, trusting)

(* Every file a crash may leave is of device d. *)
Agreed(d, safe) == \A f \in safe : f.body.device = d

(* st can be used with daemon s. *)
Holds(st, s) == \E i \in DOMAIN st.servers :
                  st.servers[i].id = s /\ st.servers[i].cert = st.device

(* st has the daemons the user was told of (pd), and one to use when none  *)
(* is named.                                                               *)
Has(st, pd) ==
  pd # {} => /\ st.device # 0 /\ Holds(st, st.default)
             /\ \A s \in pd : Holds(st, s)

(* Nobody has heard of a device. *)
Unheard(ak, tr, pd) == ak = {} /\ pd = {} /\ \A s \in Hosts : tr[s] = {}

Saving == {"opens", "creates", "writes", "syncs", "renames", "settles"}

(* A command at work alone: a new identity is told to nobody before every  *)
(* file a crash may leave has it, and afterwards all agree with it.        *)
KeptRun(x, safe, file, fresh, pd) ==
  /\ Has(x.mem, pd)
  /\ x.at \notin Saving \/ x.stage = "final" => Agreed(x.mem.device, safe)
  /\ x.at \in Saving /\ x.stage = "device" => fresh /\ (x.at # "settles" => Agreed(0, safe))
  /\ x.at = "settles" => file.body = x.mem
  /\ x.stage = "final" => Holds(x.mem, x.server) /\ x.mem.default = x.server

Alone ==
  /\ \A p, q \in Ctls : ctl[p].at # "idle" /\ ctl[q].at # "idle" => p = q
  /\ (\A p \in Ctls : ctl[p].at # "settles") => ctlSafe = {ctlFile}
  /\ \A s \in Hosts : \A d \in trusting[s] : Agreed(d, ctlSafe)
  /\ \A r \in asked : Agreed(r.device, ctlSafe)
  /\ \A f \in ctlSafe : Has(f.body, paired)
  /\ \A p \in Ctls : ctl[p].at # "idle" =>
        KeptRun(ctl[p], ctlSafe, ctlFile, Unheard(asked, trusting, paired), paired)

KeptInv == ~overlapped /\ ~brokenOff => Alone

CtlInv == CtlType /\ WholeInv /\ KeptInv
----------------------------------------------------------------------------
LEMMA CtlConstants ==
  /\ EmptyState \in CtlStates /\ (\A tr : GoodState(EmptyState, tr)) /\ EmptyState.device = 0
  /\ NoState \in CtlFiles /\ NoState.synced /\ NoState.body = EmptyState
  /\ IdleCtl \in CtlRuns /\ IdleCtl.at = "idle" /\ IdleCtl.mem = EmptyState
  /\ \A st \in CtlStates : st # Torn
  /\ MaxDevice \in Nat
<1>1. MaxDevice \in Nat
  BY CtlAssumption
<1>2. <<>> \in Seq(CtlEntries) /\ DOMAIN <<>> = {}
  OBVIOUS
<1>3. EmptyState \in CtlStates /\ EmptyState.device = 0 /\ EmptyState.servers = <<>>
  BY <1>1, <1>2 DEF EmptyState, CtlStates
<1>4. \A tr : GoodState(EmptyState, tr)
  BY <1>2, <1>3 DEF GoodState
<1>5. NoState \in CtlFiles /\ NoState.synced /\ NoState.body = EmptyState
  BY <1>3 DEF NoState, CtlFiles
<1>6. IdleCtl \in CtlRuns /\ IdleCtl.at = "idle" /\ IdleCtl.mem = EmptyState
  BY <1>3, <1>5 DEF IdleCtl, CtlRuns, CtlPoints
<1>7. Torn.device = -1
  BY DEF Torn, EmptyState
<1>8. ASSUME NEW st \in CtlStates PROVE st # Torn
  <2>1. st.device \in 0..MaxDevice
    BY DEF CtlStates
  <2> QED
    BY <1>1, <1>7, <2>1
<1> QED
  BY <1>1, <1>3, <1>4, <1>5, <1>6, <1>8

(* paired_server finds the one entry of a daemon. *)
LEMMA OneEntry ==
  ASSUME NEW st \in CtlStates, GoodState(st, trusting), NEW i \in DOMAIN st.servers
  PROVE  First(Entries(st, st.servers[i].id)) = i
<1>1. Entries(st, st.servers[i].id) = {i}
  BY DEF Entries, GoodState
<1>2. i \in Nat
  BY DEF CtlStates
<1> QED
  BY <1>1, <1>2 DEF First

LEMMA EntryTypes ==
  ASSUME NEW st \in CtlStates, NEW i \in DOMAIN st.servers
  PROVE  st.servers[i].id \in Hosts /\ st.servers[i].url \in Urls /\ st.servers[i].cert \in 0..MaxDevice
<1>1. st.servers[i] \in CtlEntries
  BY DEF CtlStates
<1> QED
  BY <1>1 DEF CtlEntries

(* record_pairing_with_certificate keeps a state good and loses no other. *)
LEMMA RecordingFacts ==
  ASSUME NEW st \in CtlStates, GoodState(st, trusting), NEW s \in Hosts, NEW u \in Urls,
         st.device # 0, st.device \in trusting[s], s \in Leads[u]
  PROVE  LET r == RecordPairing(st, s, u)
         IN  /\ r \in CtlStates /\ GoodState(r, trusting) /\ r.device = st.device /\ r.default = s
             /\ Holds(r, s) /\ \A t : Holds(st, t) => Holds(r, t)
<1> DEFINE e == [id |-> s, url |-> u, cert |-> st.device]
           r == RecordPairing(st, s, u)
           ss == st.servers
<1>1. ss \in Seq(CtlEntries) /\ e \in CtlEntries /\ st.device \in 0..MaxDevice
  BY DEF CtlStates, CtlEntries
<1>2. CASE Entries(st, s) = {}
  <2> DEFINE new == Append(ss, e)
  <2>1. r = [st EXCEPT !.servers = new, !.default = s]
    BY <1>2 DEF RecordPairing
  <2>3. /\ new \in Seq(CtlEntries) /\ DOMAIN new = DOMAIN ss \cup {Len(ss) + 1}
        /\ Len(ss) + 1 \notin DOMAIN ss
        /\ new[Len(ss) + 1] = e /\ \A i \in DOMAIN ss : new[i] = ss[i]
    BY <1>1
  <2>4. \A i \in DOMAIN ss : ss[i].id # s
    BY <1>2 DEF Entries
  <2> HIDE DEF new
  <2>2. r \in CtlStates /\ r.device = st.device /\ r.default = s /\ r.servers = new
    BY <2>1, <2>3 DEF CtlStates
  <2>5. GoodState(r, trusting)
    <3>1. ASSUME NEW i \in DOMAIN new, new[i].cert # 0
          PROVE  /\ new[i].cert = st.device /\ st.device \in trusting[new[i].id]
                 /\ new[i].id \in Leads[new[i].url]
      <4>1. CASE i = Len(ss) + 1
        BY <4>1, <2>3
      <4>2. CASE i \in DOMAIN ss
        BY <4>2, <2>3, <3>1 DEF GoodState
      <4> QED
        BY <4>1, <4>2, <2>3
    <3>2. ASSUME NEW i \in DOMAIN new, NEW j \in DOMAIN new, new[i].id = new[j].id
          PROVE  i = j
      <4>0. e.id = s
        OBVIOUS
      <4>1. CASE i = Len(ss) + 1 /\ j = Len(ss) + 1
        BY <4>1
      <4>2. CASE i \in DOMAIN ss /\ j \in DOMAIN ss
        BY <4>2, <2>3, <3>2 DEF GoodState
      <4>3. CASE i \in DOMAIN ss /\ j = Len(ss) + 1
        BY <4>0, <4>3, <2>3, <2>4, <3>2
      <4>4. CASE j \in DOMAIN ss /\ i = Len(ss) + 1
        BY <4>0, <4>4, <2>3, <2>4, <3>2
      <4> QED
        BY <4>1, <4>2, <4>3, <4>4, <2>3
    <3> QED
      BY <3>1, <3>2, <2>2 DEF GoodState
  <2>6. Holds(r, s)
    BY <2>2, <2>3 DEF Holds
  <2>7. ASSUME NEW t, Holds(st, t) PROVE Holds(r, t)
    BY <2>7, <2>2, <2>3 DEF Holds
  <2> QED
    BY <2>2, <2>5, <2>6, <2>7
<1>3. CASE Entries(st, s) # {}
  <2>0. PICK k \in Entries(st, s) : TRUE
    BY <1>3
  <2>1. k \in DOMAIN ss /\ ss[k].id = s
    BY DEF Entries
  <2>2. First(Entries(st, s)) = k
    BY <2>1, OneEntry
  <2> DEFINE new == [ss EXCEPT ![k] = e]
  <2>3. r = [st EXCEPT !.servers = new, !.default = s]
    BY <1>3, <2>2 DEF RecordPairing
  <2>4. new \in Seq(CtlEntries) /\ DOMAIN new = DOMAIN ss /\ new[k] = e
        /\ \A i \in DOMAIN ss \ {k} : new[i] = ss[i]
    BY <1>1, <2>1
  <2>5. \A i \in DOMAIN ss : new[i].id = ss[i].id
    BY <2>1, <2>4
  <2> HIDE DEF new
  <2>6. r \in CtlStates /\ r.device = st.device /\ r.default = s /\ r.servers = new
    BY <1>1, <2>3, <2>4 DEF CtlStates
  <2>7. GoodState(r, trusting)
    <3>1. ASSUME NEW i \in DOMAIN new, new[i].cert # 0
          PROVE  /\ new[i].cert = st.device /\ st.device \in trusting[new[i].id]
                 /\ new[i].id \in Leads[new[i].url]
      <4>1. CASE i = k
        BY <4>1, <2>4
      <4>2. CASE i \in DOMAIN ss \ {k}
        BY <4>2, <2>4, <3>1 DEF GoodState
      <4> QED
        BY <4>1, <4>2, <2>4
    <3>2. ASSUME NEW i \in DOMAIN new, NEW j \in DOMAIN new, new[i].id = new[j].id
          PROVE  i = j
      BY <2>4, <2>5, <3>2 DEF GoodState
    <3> QED
      BY <3>1, <3>2, <2>6 DEF GoodState
  <2>8. Holds(r, s)
    BY <2>6, <2>4, <2>1 DEF Holds
  <2>9. ASSUME NEW t, Holds(st, t) PROVE Holds(r, t)
    <3>1. PICK i \in DOMAIN ss : ss[i].id = t /\ ss[i].cert = st.device
      BY <2>9 DEF Holds
    <3>2. new[i].id = t /\ new[i].cert = st.device
      BY <3>1, <2>1, <2>4, <2>5
    <3> QED
      BY <3>2, <2>4, <2>6 DEF Holds
  <2> QED
    BY <2>6, <2>7, <2>8, <2>9
<1> QED
  BY <1>2, <1>3

(* TermctlState::load: what a command works with is what the name leads to. *)
LEMMA LoadFacts ==
  ASSUME CtlType, WholeInv, LoadState # Torn
  PROVE  LoadState = ctlFile.body /\ LoadState \in CtlStates /\ GoodState(LoadState, trusting)
<1>1. ctlFile.body \in CtlStates /\ GoodState(ctlFile.body, trusting) /\ ctlFile \in ctlSafe
  BY DEF CtlType, WholeInv, WholeFile
<1>2. Unreadable.body = Torn
  BY DEF Unreadable, NoState
<1>3. folder.own = NoPath => ctlFile = NoState
  BY <1>1 DEF WholeInv
<1>4. LoadStateFile = ctlFile
  BY <1>2, <1>3 DEF LoadStateFile, LoadState
<1> QED
  BY <1>1, <1>4 DEF LoadState

LEMMA InputFacts ==
  ASSUME NEW st \in CtlStates, GoodState(st, trusting), NEW s \in Hosts, NEW u \in Urls,
         NEW r \in Urls \cup {"no url"}, NEW input \in Inputs(st, s, u, r)
  PROVE  input.server \in Hosts /\ input.url \in Urls
<1>2. ASSUME NEW x \in FromInvite(s, u, r) PROVE x.server \in Hosts /\ x.url \in Urls
  <2>1. x = [server |-> s, url |-> IF r # "no url" THEN r ELSE u]
    BY DEF FromInvite
  <2>2. (IF r # "no url" THEN r ELSE u) \in Urls
    OBVIOUS
  <2> QED
    BY <2>1, <2>2
<1>3. FromOldInvite(st, s, u, r) \subseteq FromInvite(s, u, r)
  BY DEF FromOldInvite
<1>4. ASSUME NEW x \in FromToken(st, r) PROVE x.server \in Hosts /\ x.url \in Urls
  <2> DEFINE t == SelectedRoute(st)
  <2>1. t \in KnownServers(st) /\ x = [server |-> t, url |-> SelectedUrl(st, t, r)]
    BY <1>4 DEF FromToken
  <2> HIDE DEF t
  <2>2. PICK i \in DOMAIN st.servers : t = st.servers[i].id
    BY <2>1 DEF KnownServers
  <2>3. PairedServer(st, t) = st.servers[i]
    BY <2>2, OneEntry DEF PairedServer
  <2>4. SelectedUrl(st, t, r) \in Urls
    BY <2>2, <2>3, EntryTypes DEF SelectedUrl
  <2> QED
    BY <2>1, <2>2, <2>4, EntryTypes
<1> QED
  BY <1>2, <1>3, <1>4 DEF Inputs

LEMMA GoodGrows ==
  ASSUME NEW st \in CtlStates, NEW tr \in [Hosts -> SUBSET (1..MaxDevice)],
         NEW new \in [Hosts -> SUBSET (1..MaxDevice)],
         \A s \in Hosts : tr[s] \subseteq new[s], GoodState(st, tr)
  PROVE  GoodState(st, new)
BY EntryTypes DEF GoodState

(* A step in which only process p moves, to x. *)
LEMMA LocalStep ==
  ASSUME CtlInv, NEW p \in Ctls, NEW x \in CtlRuns,
         ctl' = [ctl EXCEPT ![p] = x],
         UNCHANGED <<folder, ctlFile, ctlSafe, asked, trusting, paired>>,
         devices' \in 0..MaxDevice,
         overlapped' \in BOOLEAN, overlapped => overlapped',
         brokenOff' \in BOOLEAN, brokenOff => brokenOff',
         WholeRun(x, folder, trusting),
         ~overlapped' /\ ~brokenOff' =>
            /\ x.at # "idle" => \A q \in Ctls \ {p} : ctl[q].at = "idle"
            /\ (\A q \in Ctls \ {p} : ctl[q].at = "idle") /\ x.at # "settles" => ctlSafe = {ctlFile}
            /\ x.at # "idle" => KeptRun(x, ctlSafe, ctlFile, Unheard(asked, trusting, paired), paired)
  PROVE  CtlInv'
<1>0. /\ ctl \in [Ctls -> CtlRuns]
      /\ folder' = folder /\ ctlFile' = ctlFile /\ ctlSafe' = ctlSafe
      /\ asked' = asked /\ trusting' = trusting /\ paired' = paired
  BY DEF CtlInv, CtlType
<1>1. CtlType'
  BY <1>0 DEF CtlInv, CtlType
<1>2. ctl'[p] = x /\ \A q \in Ctls \ {p} : ctl'[q] = ctl[q]
  BY <1>0
<1>3. WholeInv'
  BY <1>0, <1>2 DEF CtlInv, WholeInv
<1>4. ASSUME ~overlapped', ~brokenOff' PROVE Alone'
  <2>1. Alone
    BY <1>4 DEF CtlInv, KeptInv
  <2>2. \A s \in Hosts : \A d \in trusting[s] : Agreed(d, ctlSafe)
    BY <2>1 DEF Alone
  <2>3. \A r \in asked : Agreed(r.device, ctlSafe)
    BY <2>1 DEF Alone
  <2>4. \A f \in ctlSafe : Has(f.body, paired)
    BY <2>1 DEF Alone
  <2>5. \A a, b \in Ctls : ctl'[a].at # "idle" /\ ctl'[b].at # "idle" => a = b
    BY <2>1, <1>2, <1>4 DEF Alone
  <2>6. (\A a \in Ctls : ctl'[a].at # "settles") => ctlSafe = {ctlFile}
    <3>1. CASE \A q \in Ctls \ {p} : ctl[q].at = "idle"
      BY <3>1, <1>2, <1>4
    <3>2. CASE \E q \in Ctls \ {p} : ctl[q].at # "idle"
      <4>1. PICK q \in Ctls \ {p} : ctl[q].at # "idle"
        BY <3>2
      <4>2. ctl[p].at = "idle"
        BY <4>1, <2>1 DEF Alone
      <4> QED
        BY <4>2, <2>1, <1>2 DEF Alone
    <3> QED
      BY <3>1, <3>2
  <2>7. \A a \in Ctls : ctl'[a].at # "idle" =>
           KeptRun(ctl'[a], ctlSafe, ctlFile, Unheard(asked, trusting, paired), paired)
    BY <2>1, <1>2, <1>4 DEF Alone
  <2> QED
    BY <2>2, <2>3, <2>4, <2>5, <2>6, <2>7, <1>0 DEF Alone
<1> QED
  BY <1>1, <1>3, <1>4 DEF CtlInv, KeptInv

LEMMA CtlRunFacts ==
  ASSUME CtlInv, NEW p \in Ctls
  PROVE  /\ ctl \in [Ctls -> CtlRuns] /\ ctl[p] \in CtlRuns /\ WholeRun(ctl[p], folder, trusting)
         /\ ctl[p].mem \in CtlStates /\ GoodState(ctl[p].mem, trusting)
         /\ ctl[p].temp \in CtlFiles /\ ctl[p].stage \in {"device", "final"}
         /\ ctl[p].at \in CtlPoints
BY DEF CtlInv, CtlType, CtlRuns, WholeInv, WholeRun

(* When p is the one command at work. *)
LEMMA AloneFacts ==
  ASSUME CtlInv, ~overlapped, ~brokenOff, NEW p \in Ctls, ctl[p].at # "idle"
  PROVE  /\ Alone
         /\ \A q \in Ctls \ {p} : ctl[q].at = "idle"
         /\ KeptRun(ctl[p], ctlSafe, ctlFile, Unheard(asked, trusting, paired), paired)
         /\ ctl[p].at # "settles" => ctlSafe = {ctlFile}
<1>1. Alone
  BY DEF CtlInv, KeptInv
<1>2. \A q \in Ctls \ {p} : ctl[q].at = "idle"
  BY <1>1 DEF Alone
<1>3. ctl[p].at # "settles" => \A q \in Ctls : ctl[q].at # "settles"
  BY <1>2
<1> QED
  BY <1>1, <1>2, <1>3 DEF Alone

(* ensure_device *)
LEMMA EnsureFacts ==
  ASSUME NEW st \in CtlStates, GoodState(st, trusting), devices \in 0..MaxDevice,
         EnsureDevice(st).device <= MaxDevice
  PROVE  /\ EnsureDevice(st) \in CtlStates /\ EnsureDevice(st).device # 0
         /\ st.device # 0 => EnsureDevice(st) = st
         /\ GoodState(EnsureDevice(st), trusting)
<1>1. CASE st.device # 0
  BY <1>1 DEF EnsureDevice
<1>2. CASE st.device = 0
  <2> DEFINE x == EnsureDevice(st)
  <2>1. x = [st EXCEPT !.device = devices + 1]
    BY <1>2 DEF EnsureDevice
  <2>2. x.device = devices + 1 /\ x.servers = st.servers
    BY <2>1 DEF CtlStates
  <2>3. devices + 1 \in 0..MaxDevice /\ devices + 1 # 0
    BY <2>2, CtlConstants
  <2>4. x \in CtlStates
    BY <2>1, <2>3 DEF CtlStates
  <2> HIDE DEF x
  <2>5. \A i \in DOMAIN st.servers : st.servers[i].cert = 0
    <3>1. ASSUME NEW i \in DOMAIN st.servers, st.servers[i].cert # 0 PROVE FALSE
      BY <3>1, <1>2 DEF GoodState
    <3> QED
      BY <3>1
  <2>6. GoodState(x, trusting)
    BY <2>2, <2>5 DEF GoodState
  <2> QED
    BY <1>2, <2>2, <2>3, <2>4, <2>6 DEF x
<1> QED
  BY <1>1, <1>2

(* While the one file has no device, none was heard of. *)
LEMMA NobodyHeard ==
  ASSUME CtlInv, Alone, ctlSafe = {ctlFile}, ctlFile.body.device = 0, paired = {}
  PROVE  Unheard(asked, trusting, paired)
<1>1. \A d : Agreed(d, ctlSafe) => d = 0
  BY DEF Agreed
<1>2. MaxDevice \in Nat /\ \A d \in 1..MaxDevice : d # 0
  BY CtlConstants
<1>3. ASSUME NEW s \in Hosts, NEW d \in trusting[s] PROVE FALSE
  <2>1. d \in 1..MaxDevice
    BY DEF CtlInv, CtlType
  <2> QED
    BY <1>1, <1>2, <2>1 DEF Alone
<1>4. ASSUME NEW r \in asked PROVE FALSE
  <2>1. r.device \in 1..MaxDevice
    BY DEF CtlInv, CtlType
  <2> QED
    BY <1>1, <1>2, <2>1 DEF Alone
<1> QED
  BY <1>3, <1>4 DEF Unheard

LEMMA PairStep ==
  ASSUME CtlInv, NEW p \in Ctls, Pair(p)
  PROVE  CtlInv'
<1> DEFINE st == LoadState
           b == EnsurePairingDevice(st)
<1>1. ctl[p].at = "idle" /\ overlapped' = (overlapped \/ \E q \in Ctls \ {p} : ctl[q].at # "idle")
  BY DEF Pair, Starts
<1>2. st = ctlFile.body /\ st \in CtlStates /\ GoodState(st, trusting)
  BY LoadFacts DEF Pair, CtlInv
<1>a. PICK h \in Hosts, u \in Urls, requested \in Urls \cup {"no url"} :
        \E input \in Inputs(st, h, u, requested) :
         /\ b.mem.device <= MaxDevice
         /\ devices' = IF b.mem.device > devices THEN b.mem.device ELSE devices
         /\ ctl' = [ctl EXCEPT ![p] = [IdleCtl EXCEPT !.at = b.at, !.mem = b.mem,
                                           !.server = input.server, !.url = input.url]]
  BY DEF Pair
<1>3. PICK input \in Inputs(st, h, u, requested) :
         /\ b.mem.device <= MaxDevice
         /\ devices' = IF b.mem.device > devices THEN b.mem.device ELSE devices
         /\ ctl' = [ctl EXCEPT ![p] = [IdleCtl EXCEPT !.at = b.at, !.mem = b.mem,
                                           !.server = input.server, !.url = input.url]]
  BY <1>a
<1> DEFINE x == [IdleCtl EXCEPT !.at = b.at, !.mem = b.mem, !.server = input.server, !.url = input.url]
<1>4. /\ UNCHANGED <<folder, ctlFile, ctlSafe, asked, trusting, paired>> /\ brokenOff' = brokenOff
  BY DEF Pair, Keep, NetworkIdle
<1>5. input.server \in Hosts /\ input.url \in Urls
  BY <1>2, InputFacts
<1>6. devices \in 0..MaxDevice /\ MaxDevice \in Nat
  BY CtlConstants DEF CtlInv, CtlType
<1>7. st.device \in 0..MaxDevice
  BY <1>2 DEF CtlStates
<1>8. /\ b.mem = EnsureDevice(st) /\ b.at = (IF st.device # 0 THEN "sends" ELSE "opens")
  BY DEF EnsurePairingDevice
<1>9. b.mem \in CtlStates /\ b.mem.device # 0 /\ (st.device # 0 => b.mem = st)
      /\ GoodState(b.mem, trusting)
  BY <1>2, <1>3, <1>6, <1>8, EnsureFacts
<1>10. devices' \in 0..MaxDevice
  <2>1. b.mem.device \in 0..MaxDevice
    BY <1>9 DEF CtlStates
  <2> QED
    BY <2>1, <1>3, <1>6
<1>11. /\ x \in CtlRuns /\ x.at = b.at /\ x.mem = b.mem /\ x.stage = "device"
       /\ x.server = input.server /\ x.url = input.url
  BY <1>5, <1>8, <1>9, CtlConstants DEF IdleCtl, CtlRuns, CtlPoints
<1> HIDE DEF x, b, st
<1>13. WholeRun(x, folder, trusting)
  BY <1>5, <1>8, <1>9, <1>11 DEF WholeRun
<1>14. ASSUME ~overlapped', ~brokenOff'
       PROVE  /\ \A q \in Ctls \ {p} : ctl[q].at = "idle"
              /\ ctlSafe = {ctlFile}
              /\ KeptRun(x, ctlSafe, ctlFile, Unheard(asked, trusting, paired), paired)
  <2>1. Alone /\ (\A q \in Ctls : ctl[q].at = "idle")
    BY <1>1, <1>4, <1>14 DEF CtlInv, KeptInv
  <2>2. ctlSafe = {ctlFile}
    BY <2>1 DEF Alone
  <2>3. Has(st, paired)
    BY <2>1, <2>2, <1>2 DEF Alone
  <2>4. Agreed(st.device, ctlSafe)
    BY <2>2, <1>2 DEF Agreed
  <2>5. CASE st.device # 0
    <3>1. x.mem = st /\ x.at = "sends" /\ x.stage = "device"
      BY <2>5, <1>8, <1>9, <1>11
    <3>2. KeptRun(x, ctlSafe, ctlFile, Unheard(asked, trusting, paired), paired)
      BY <2>3, <2>4, <3>1 DEF KeptRun, Saving
    <3> QED
      BY <3>2, <2>1, <2>2
  <2>6. CASE st.device = 0
    <3>1. paired = {}
      BY <2>3, <2>6 DEF Has
    <3>2. Unheard(asked, trusting, paired)
      BY <3>1, <2>1, <2>2, <2>6, <1>2, NobodyHeard
    <3>4. Unheard(asked, trusting, paired) /\ Has(x.mem, paired) /\ Agreed(0, ctlSafe)
      BY <3>1, <3>2, <2>4, <2>6 DEF Has
    <3> QED
      BY <3>4, <2>1, <2>2, <2>6, <1>8, <1>11 DEF KeptRun, Saving
  <2> QED
    BY <2>1, <2>2, <2>5, <2>6
<1>15. ctl' = [ctl EXCEPT ![p] = x]
  BY <1>3 DEF x
<1>16. overlapped \in BOOLEAN /\ brokenOff \in BOOLEAN
  BY DEF CtlInv, CtlType
<1>17. overlapped' \in BOOLEAN /\ (overlapped => overlapped') /\ brokenOff' \in BOOLEAN /\ (brokenOff => brokenOff')
  BY <1>1, <1>4, <1>16
<1> QED
  BY <1>4, <1>10, <1>11, <1>13, <1>14, <1>15, <1>17, LocalStep

(* A command that ends before its rename, or with a broken off save. *)
LEMMA EndStep ==
  ASSUME CtlInv, NEW p \in Ctls, ctl[p].at # "idle", ctl' = [ctl EXCEPT ![p] = IdleCtl],
         UNCHANGED <<folder, ctlFile, ctlSafe, asked, trusting, paired, overlapped, devices>>,
         brokenOff' \in BOOLEAN, brokenOff => brokenOff', ctl[p].at = "settles" => brokenOff'
  PROVE  CtlInv'
<1>1. IdleCtl \in CtlRuns /\ IdleCtl.at = "idle" /\ WholeRun(IdleCtl, folder, trusting)
  BY CtlConstants DEF WholeRun
<1>2. ASSUME ~overlapped', ~brokenOff' PROVE ctlSafe = {ctlFile}
  BY <1>2, AloneFacts
<1>3. devices' \in 0..MaxDevice /\ overlapped' \in BOOLEAN /\ (overlapped => overlapped')
  BY DEF CtlInv, CtlType
<1> HIDE DEF IdleCtl
<1> QED
  BY <1>1, <1>2, <1>3, LocalStep

LEMMA FailsStep ==
  ASSUME CtlInv, NEW p \in Ctls, PairDeviceFails(p) \/ SaveFails(p)
  PROVE  CtlInv'
<1>0. brokenOff \in BOOLEAN
  BY DEF CtlInv, CtlType
<1>1. CASE PairDeviceFails(p)
  BY <1>0, <1>1, EndStep DEF PairDeviceFails, CommandEnds, Keep, NetworkIdle
<1>2. CASE SaveFails(p)
  <2>1. /\ ctl[p].at # "idle" /\ ctl' = [ctl EXCEPT ![p] = IdleCtl]
        /\ UNCHANGED <<folder, ctlFile, ctlSafe, asked, trusting, paired, overlapped, devices>>
        /\ brokenOff' = (brokenOff \/ RenamedUnsynced(p))
    BY <1>2 DEF SaveFails, CommandEnds, Keep, NetworkIdle
  <2>2. ctl[p].at = "settles" => RenamedUnsynced(p)
    BY CtlRunFacts DEF RenamedUnsynced, WholeRun
  <2>3. brokenOff' \in BOOLEAN /\ (brokenOff => brokenOff') /\ (ctl[p].at = "settles" => brokenOff')
    BY <1>0, <2>1, <2>2
  <2> QED
    BY <2>1, <2>3, EndStep
<1> QED
  BY <1>1, <1>2

(* A call of the save that changes only what its process holds. *)
LEMMA MoveStep ==
  ASSUME CtlInv, NEW p \in Ctls, NEW x \in CtlRuns, ctl' = [ctl EXCEPT ![p] = x],
         UNCHANGED <<folder, ctlFile, ctlSafe, asked, trusting, paired, overlapped, brokenOff, devices>>,
         ctl[p].at \notin {"idle", "settles"}, x.at \notin {"idle", "settles"},
         WholeRun(x, folder, trusting),
         ~overlapped /\ ~brokenOff
            => KeptRun(x, ctlSafe, ctlFile, Unheard(asked, trusting, paired), paired)
  PROVE  CtlInv'
<1>1. devices' \in 0..MaxDevice /\ overlapped' \in BOOLEAN /\ (overlapped => overlapped')
      /\ brokenOff' \in BOOLEAN /\ (brokenOff => brokenOff')
  BY DEF CtlInv, CtlType
<1>2. ASSUME ~overlapped', ~brokenOff'
      PROVE  /\ \A q \in Ctls \ {p} : ctl[q].at = "idle"
             /\ ctlSafe = {ctlFile}
             /\ KeptRun(x, ctlSafe, ctlFile, Unheard(asked, trusting, paired), paired)
  BY <1>2, AloneFacts
<1> QED
  BY <1>1, <1>2, LocalStep

LEMMA SaveCalls ==
  ASSUME CtlInv, NEW p \in Ctls, CreateTemp(p) \/ WriteTemp(p) \/ SyncTemp(p)
  PROVE  CtlInv'
<1> DEFINE c == ctl[p]
<1>0. c \in CtlRuns /\ WholeRun(c, folder, trusting) /\ c.mem \in CtlStates /\ c.temp \in CtlFiles
      /\ ctl \in [Ctls -> CtlRuns]
  BY CtlRunFacts
<1>k. ASSUME ~overlapped, ~brokenOff, c.at # "idle"
      PROVE  KeptRun(c, ctlSafe, ctlFile, Unheard(asked, trusting, paired), paired)
  BY <1>k, AloneFacts
<1>1. CASE CreateTemp(p)
  <2> DEFINE x == [c EXCEPT !.temp = NewFile(Torn), !.at = "writes"]
  <2>1. c.at = "creates" /\ ctl' = [ctl EXCEPT ![p] = x]
        /\ UNCHANGED <<folder, ctlFile, ctlSafe, asked, trusting, paired, overlapped, brokenOff, devices>>
    BY <1>0, <1>1 DEF CreateTemp, Keep, NetworkIdle
  <2>2. NewFile(Torn) \in CtlFiles
    BY DEF NewFile, CtlFiles
  <2>3. x \in CtlRuns /\ x.at = "writes" /\ x.mem = c.mem /\ x.stage = c.stage
        /\ x.server = c.server /\ x.url = c.url
    BY <1>0, <2>2 DEF CtlRuns, CtlPoints
  <2> HIDE DEF x
  <2>4. WholeRun(x, folder, trusting)
    BY <1>0, <2>1, <2>3 DEF WholeRun
  <2>5. ~overlapped /\ ~brokenOff => KeptRun(x, ctlSafe, ctlFile, Unheard(asked, trusting, paired), paired)
    BY <1>k, <2>1, <2>3 DEF KeptRun, Saving
  <2> QED
    BY <2>1, <2>3, <2>4, <2>5, MoveStep
<1>2. CASE WriteTemp(p)
  <2> DEFINE x == [c EXCEPT !.temp.body = c.mem, !.at = "syncs"]
  <2>1. c.at = "writes" /\ ctl' = [ctl EXCEPT ![p] = x]
        /\ UNCHANGED <<folder, ctlFile, ctlSafe, asked, trusting, paired, overlapped, brokenOff, devices>>
    BY <1>0, <1>2 DEF WriteTemp, Keep, NetworkIdle
  <2>2. [c.temp EXCEPT !.body = c.mem] \in CtlFiles /\ [c.temp EXCEPT !.body = c.mem].body = c.mem
    BY <1>0 DEF CtlFiles
  <2>3. x \in CtlRuns /\ x.at = "syncs" /\ x.mem = c.mem /\ x.stage = c.stage
        /\ x.server = c.server /\ x.url = c.url /\ x.temp.body = c.mem
    BY <1>0, <2>2 DEF CtlRuns, CtlPoints
  <2> HIDE DEF x
  <2>4. WholeRun(x, folder, trusting)
    BY <1>0, <2>1, <2>3 DEF WholeRun
  <2>5. ~overlapped /\ ~brokenOff => KeptRun(x, ctlSafe, ctlFile, Unheard(asked, trusting, paired), paired)
    BY <1>k, <2>1, <2>3 DEF KeptRun, Saving
  <2> QED
    BY <2>1, <2>3, <2>4, <2>5, MoveStep
<1>3. CASE SyncTemp(p)
  <2> DEFINE x == [c EXCEPT !.temp = SyncTempFile(c.temp), !.at = "renames"]
  <2>1. c.at = "syncs" /\ ctl' = [ctl EXCEPT ![p] = x]
        /\ UNCHANGED <<folder, ctlFile, ctlSafe, asked, trusting, paired, overlapped, brokenOff, devices>>
    BY <1>0, <1>3 DEF SyncTemp, Keep, NetworkIdle
  <2>2. SyncTempFile(c.temp) \in CtlFiles /\ SyncTempFile(c.temp).body = c.temp.body
        /\ SyncTempFile(c.temp).synced
    BY <1>0 DEF CtlFiles, SyncTempFile
  <2>3. x \in CtlRuns /\ x.at = "renames" /\ x.mem = c.mem /\ x.stage = c.stage
        /\ x.server = c.server /\ x.url = c.url /\ x.temp.body = c.temp.body /\ x.temp.synced
    BY <1>0, <2>2 DEF CtlRuns, CtlPoints
  <2> HIDE DEF x
  <2>4. WholeRun(x, folder, trusting)
    BY <1>0, <2>1, <2>3 DEF WholeRun
  <2>5. ~overlapped /\ ~brokenOff => KeptRun(x, ctlSafe, ctlFile, Unheard(asked, trusting, paired), paired)
    BY <1>k, <2>1, <2>3 DEF KeptRun, Saving
  <2> QED
    BY <2>1, <2>3, <2>4, <2>5, MoveStep
<1> QED
  BY <1>1, <1>2, <1>3

LEMMA RecordsStep ==
  ASSUME CtlInv, NEW p \in Ctls, PairRecords(p)
  PROVE  CtlInv'
<1> DEFINE c == ctl[p]
           m == RecordPairing(c.mem, c.server, c.url)
           x == [c EXCEPT !.mem = m, !.at = "opens", !.stage = "final"]
<1>0. c \in CtlRuns /\ WholeRun(c, folder, trusting) /\ c.mem \in CtlStates /\ c.temp \in CtlFiles
      /\ ctl \in [Ctls -> CtlRuns]
  BY CtlRunFacts
<1>1. c.at = "answered" /\ ctl' = [ctl EXCEPT ![p] = x]
      /\ UNCHANGED <<folder, ctlFile, ctlSafe, asked, trusting, paired, overlapped, brokenOff, devices>>
  BY <1>0 DEF PairRecords, Keep, NetworkIdle
<1>2. c.server \in Hosts /\ c.url \in Urls /\ c.mem.device # 0 /\ c.mem.device \in trusting[c.server]
      /\ c.server \in Leads[c.url] /\ GoodState(c.mem, trusting)
  BY <1>0, <1>1 DEF WholeRun
<1> HIDE DEF c
<1>3. /\ m \in CtlStates /\ GoodState(m, trusting) /\ m.device = c.mem.device /\ m.default = c.server
      /\ Holds(m, c.server) /\ \A t : Holds(c.mem, t) => Holds(m, t)
  BY <1>0, <1>2, RecordingFacts
<1> HIDE DEF m
<1>4. x \in CtlRuns /\ x.at = "opens" /\ x.mem = m /\ x.stage = "final"
      /\ x.server = c.server /\ x.url = c.url
  BY <1>0, <1>3 DEF CtlRuns, CtlPoints
<1> HIDE DEF x
<1>5. WholeRun(x, folder, trusting)
  BY <1>2, <1>3, <1>4 DEF WholeRun
<1>6. ASSUME ~overlapped, ~brokenOff
      PROVE  KeptRun(x, ctlSafe, ctlFile, Unheard(asked, trusting, paired), paired)
  <2>1. KeptRun(c, ctlSafe, ctlFile, Unheard(asked, trusting, paired), paired)
    BY <1>1, <1>6, AloneFacts DEF c
  <2>2. Has(c.mem, paired) /\ Agreed(c.mem.device, ctlSafe)
    BY <2>1, <1>1 DEF KeptRun, Saving
  <2>3. Has(m, paired)
    BY <2>2, <1>3, <1>2 DEF Has
  <2> QED
    BY <2>2, <2>3, <1>3, <1>4 DEF KeptRun, Saving
<1>7. ctl[p].at \notin {"idle", "settles"}
  BY <1>1 DEF c
<1> QED
  BY <1>1, <1>4, <1>5, <1>6, <1>7, MoveStep

LEMMA SendsStep ==
  ASSUME CtlInv, NEW p \in Ctls, PairDeviceSends(p)
  PROVE  CtlInv'
<1> DEFINE c == ctl[p]
           x == [c EXCEPT !.at = "waits"]
           r == [server |-> c.server, device |-> c.mem.device, url |-> c.url]
<1>0. c \in CtlRuns /\ WholeRun(c, folder, trusting) /\ c.mem \in CtlStates
      /\ ctl \in [Ctls -> CtlRuns]
  BY CtlRunFacts
<1>1. /\ c.at = "sends" /\ ctl' = [ctl EXCEPT ![p] = x] /\ asked' = asked \cup {r}
      /\ folder' = folder /\ ctlFile' = ctlFile /\ ctlSafe' = ctlSafe /\ trusting' = trusting
      /\ paired' = paired /\ overlapped' = overlapped /\ brokenOff' = brokenOff /\ devices' = devices
  BY <1>0 DEF PairDeviceSends, Keep
<1>2. x \in CtlRuns /\ x.at = "waits" /\ x.mem = c.mem /\ x.stage = c.stage
      /\ x.server = c.server /\ x.url = c.url
  BY <1>0 DEF CtlRuns, CtlPoints
<1>3. c.server \in Hosts /\ c.url \in Urls /\ c.mem.device \in 1..MaxDevice
  <2>1. c.mem.device \in 0..MaxDevice /\ MaxDevice \in Nat
    BY <1>0, CtlConstants DEF CtlStates
  <2> QED
    BY <2>1, <1>0, <1>1 DEF WholeRun
<1>4. ctl'[p] = x /\ \A q \in Ctls \ {p} : ctl'[q] = ctl[q]
  BY <1>0, <1>1
<1>5. CtlType'
  BY <1>1, <1>2, <1>3 DEF CtlInv, CtlType
<1> HIDE DEF x
<1>6. WholeRun(x, folder, trusting)
  BY <1>0, <1>1, <1>2 DEF WholeRun
<1>7. WholeInv'
  BY <1>1, <1>4, <1>6 DEF CtlInv, WholeInv
<1>8. ASSUME ~overlapped', ~brokenOff' PROVE Alone'
  <2>1. /\ Alone /\ (\A q \in Ctls \ {p} : ctl[q].at = "idle") /\ ctlSafe = {ctlFile}
        /\ KeptRun(c, ctlSafe, ctlFile, Unheard(asked, trusting, paired), paired)
    BY <1>1, <1>8, AloneFacts
  <2>2. Agreed(c.mem.device, ctlSafe) /\ Has(c.mem, paired)
    BY <2>1, <1>1 DEF KeptRun, Saving
  <2>3. r.device = c.mem.device
    OBVIOUS
  <2>4. \A a \in asked' : Agreed(a.device, ctlSafe)
    BY <2>1, <2>2, <2>3, <1>1 DEF Alone
  <2>5. ASSUME NEW fr PROVE KeptRun(x, ctlSafe, ctlFile, fr, paired)
    BY <2>1, <2>2, <1>1, <1>2 DEF KeptRun, Saving
  <2>6. \A a, b \in Ctls : ctl'[a].at # "idle" /\ ctl'[b].at # "idle" => a = b
    BY <2>1, <1>4
  <2>7. \A a \in Ctls : ctl'[a].at # "idle" =>
           KeptRun(ctl'[a], ctlSafe, ctlFile, Unheard(asked', trusting, paired), paired)
    BY <2>1, <2>5, <1>4
  <2>8. /\ \A s \in Hosts : \A d \in trusting[s] : Agreed(d, ctlSafe)
        /\ \A f \in ctlSafe : Has(f.body, paired)
    BY <2>1 DEF Alone
  <2> QED
    BY <2>1, <2>4, <2>6, <2>7, <2>8, <1>1 DEF Alone
<1> QED
  BY <1>5, <1>7, <1>8 DEF CtlInv, KeptInv

LEMMA DaemonStep ==
  ASSUME CtlInv, NEW r \in asked, DaemonPairs(r)
  PROVE  CtlInv'
<1>t. /\ ctl \in [Ctls -> CtlRuns] /\ trusting \in [Hosts -> SUBSET (1..MaxDevice)]
      /\ asked \subseteq [server : Hosts, device : 1..MaxDevice, url : Urls]
  BY DEF CtlInv, CtlType
<1>r. r.server \in Hosts /\ r.device \in 1..MaxDevice /\ r.url \in Urls
  BY <1>t
<1>1. /\ asked' = asked \ {r}
      /\ trusting' = IF r.server \in Leads[r.url]
                     THEN [trusting EXCEPT ![r.server] = @ \cup {r.device}] ELSE trusting
      /\ folder' = folder /\ ctlFile' = ctlFile /\ ctlSafe' = ctlSafe
      /\ paired' = paired /\ overlapped' = overlapped /\ brokenOff' = brokenOff /\ devices' = devices
  BY DEF DaemonPairs, Keep
<1>2. PICK lost \in BOOLEAN :
        ctl' = [p \in Ctls |->
                 IF /\ ctl[p].at = "waits" /\ ~lost /\ r.server \in Leads[r.url]
                    /\ ctl[p].server = r.server /\ ctl[p].mem.device = r.device
                    /\ ctl[p].url = r.url
                 THEN [ctl[p] EXCEPT !.at = "answered"] ELSE ctl[p]]
  BY DEF DaemonPairs
<1>3. /\ trusting' \in [Hosts -> SUBSET (1..MaxDevice)]
      /\ \A s \in Hosts : trusting[s] \subseteq trusting'[s]
      /\ \A s \in Hosts : \A d \in trusting'[s] : d \in trusting[s] \/ d = r.device
      /\ r.server \in Leads[r.url] => r.device \in trusting'[r.server]
  BY <1>1, <1>t, <1>r
<1>4. ASSUME NEW p \in Ctls
      PROVE  /\ ctl'[p] \in CtlRuns /\ ctl'[p].mem = ctl[p].mem /\ ctl'[p].temp = ctl[p].temp
             /\ ctl'[p].stage = ctl[p].stage /\ ctl'[p].server = ctl[p].server /\ ctl'[p].url = ctl[p].url
             /\ \/ ctl'[p].at = ctl[p].at
                \/ /\ ctl[p].at = "waits" /\ ctl'[p].at = "answered" /\ r.server \in Leads[r.url]
                   /\ ctl[p].server = r.server /\ ctl[p].mem.device = r.device /\ ctl[p].url = r.url
  <2>1. ctl[p] \in CtlRuns
    BY <1>t
  <2>2. CASE ctl'[p] = ctl[p]
    BY <2>1, <2>2
  <2>3. CASE /\ ctl[p].at = "waits" /\ r.server \in Leads[r.url]
             /\ ctl[p].server = r.server /\ ctl[p].mem.device = r.device /\ ctl[p].url = r.url
             /\ ctl'[p] = [ctl[p] EXCEPT !.at = "answered"]
    BY <2>1, <2>3 DEF CtlRuns, CtlPoints
  <2> QED
    BY <2>2, <2>3, <1>2
<1>5. CtlType'
  <2>1. ctl' \in [Ctls -> CtlRuns]
    <3>1. ctl' = [p \in Ctls |-> ctl'[p]]
      BY <1>2
    <3> QED
      BY <1>4, <3>1
  <2> QED
    BY <2>1, <1>1, <1>3 DEF CtlInv, CtlType
<1>6. WholeInv'
  <2>1. ASSUME NEW f \in ctlSafe PROVE WholeFile(f, trusting')
    BY <1>t, <1>3, GoodGrows DEF WholeFile, CtlInv, WholeInv
  <2>2. ASSUME NEW p \in Ctls PROVE WholeRun(ctl'[p], folder, trusting')
    <3>0. WholeRun(ctl[p], folder, trusting) /\ ctl[p].mem \in CtlStates
      BY CtlRunFacts
    <3>1. GoodState(ctl'[p].mem, trusting')
      BY <3>0, <1>t, <1>3, <1>4, GoodGrows DEF WholeRun
    <3>2. CASE ctl'[p].at = ctl[p].at
      <4>1. ctl'[p].at = "answered" => ctl'[p].mem.device \in trusting'[ctl'[p].server]
                                       /\ ctl'[p].server \in Leads[ctl'[p].url]
        BY <3>0, <3>2, <1>3, <1>4 DEF WholeRun
      <4> QED
        BY <3>0, <3>1, <3>2, <4>1, <1>4 DEF WholeRun
    <3>3. CASE /\ ctl[p].at = "waits" /\ ctl'[p].at = "answered" /\ r.server \in Leads[r.url]
               /\ ctl[p].server = r.server /\ ctl[p].mem.device = r.device /\ ctl[p].url = r.url
      BY <3>0, <3>1, <3>3, <1>3, <1>4 DEF WholeRun
    <3> QED
      BY <3>2, <3>3, <1>4
  <2> QED
    BY <2>1, <2>2, <1>1 DEF CtlInv, WholeInv
<1>7. ASSUME ~overlapped', ~brokenOff' PROVE Alone'
  <2>1. Alone
    BY <1>1, <1>7 DEF CtlInv, KeptInv
  <2>2. Agreed(r.device, ctlSafe)
    BY <2>1 DEF Alone
  <2>3. \A s \in Hosts : \A d \in trusting'[s] : Agreed(d, ctlSafe)
    BY <2>1, <2>2, <1>3 DEF Alone
  <2>4. \A a \in asked' : Agreed(a.device, ctlSafe)
    BY <2>1, <1>1 DEF Alone
  <2>5. \A f \in ctlSafe : Has(f.body, paired)
    BY <2>1 DEF Alone
  <2>6. \A p \in Ctls : /\ ctl'[p].at = "idle" <=> ctl[p].at = "idle"
                        /\ ctl'[p].at = "settles" <=> ctl[p].at = "settles"
    BY <1>4
  <2>7. ASSUME NEW p \in Ctls, ctl'[p].at # "idle"
        PROVE  KeptRun(ctl'[p], ctlSafe, ctlFile, Unheard(asked', trusting', paired), paired)
    <3>1. KeptRun(ctl[p], ctlSafe, ctlFile, Unheard(asked, trusting, paired), paired)
      BY <2>1, <2>6, <2>7 DEF Alone
    <3>2. ~Unheard(asked, trusting, paired)
      BY DEF Unheard
    <3>3. ctl'[p].at \in Saving <=> ctl[p].at \in Saving
      BY <1>4 DEF Saving
    <3>4. ctl[p].stage \in {"device", "final"}
      BY CtlRunFacts
    <3> QED
      BY <3>1, <3>2, <3>3, <3>4, <2>6, <1>4 DEF KeptRun
  <2> QED
    BY <2>1, <2>3, <2>4, <2>5, <2>6, <2>7, <1>1 DEF Alone
<1> QED
  BY <1>5, <1>6, <1>7 DEF CtlInv, KeptInv

(* open_state_parent and sync(ParentAfterRename) leave one file to find. *)
LEMMA OpensStep ==
  ASSUME CtlInv, NEW p \in Ctls, OpenStateParent(p)
  PROVE  CtlInv'
<1> DEFINE c == ctl[p]
           x == [c EXCEPT !.at = "creates"]
<1>0. c \in CtlRuns /\ WholeRun(c, folder, trusting) /\ c.mem \in CtlStates
      /\ ctl \in [Ctls -> CtlRuns] /\ folder \in [above : Directories, own : Directories]
      /\ ctlFile \in ctlSafe
  BY CtlRunFacts DEF CtlInv, CtlType
<1>1. /\ c.at = "opens" /\ ctl' = [ctl EXCEPT ![p] = x] /\ ctlSafe' = {ctlFile}
      /\ folder' = (IF folder.own = NoPath THEN [folder EXCEPT !.own = PrivateDir] ELSE folder)
      /\ ctlFile' = ctlFile /\ trusting' = trusting /\ asked' = asked
      /\ paired' = paired /\ overlapped' = overlapped /\ brokenOff' = brokenOff /\ devices' = devices
  BY <1>0 DEF OpenStateParent, NetworkIdle
<1>2. x \in CtlRuns /\ x.at = "creates" /\ x.mem = c.mem /\ x.stage = c.stage
      /\ x.server = c.server /\ x.url = c.url
  BY <1>0 DEF CtlRuns, CtlPoints
<1>3. PrivateDir \in Directories /\ PrivateDir # NoPath
  <2>1. PrivateDir.owner # NoPath.owner
    BY DEF PrivateDir, NoPath
  <2> QED
    BY <2>1 DEF PrivateDir, Directories
<1>4. folder' \in [above : Directories, own : Directories] /\ folder'.own # NoPath
  BY <1>0, <1>1, <1>3
<1>5. ctl'[p] = x /\ \A q \in Ctls \ {p} : ctl'[q] = ctl[q]
  BY <1>0, <1>1
<1>6. CtlType'
  BY <1>0, <1>1, <1>2, <1>4 DEF CtlInv, CtlType
<1> HIDE DEF x
<1>7. WholeRun(x, folder', trusting)
  BY <1>0, <1>1, <1>2, <1>4 DEF WholeRun
<1>8. WholeInv'
  <2>1. \A q \in Ctls : WholeRun(ctl[q], folder, trusting)
    BY DEF CtlInv, WholeInv
  <2>2. \A q \in Ctls \ {p} : WholeRun(ctl'[q], folder', trusting)
    BY <2>1, <1>4, <1>5 DEF WholeRun
  <2>3. \A f \in ctlSafe' : WholeFile(f, trusting)
    BY <1>0, <1>1 DEF CtlInv, WholeInv
  <2> QED
    BY <2>2, <2>3, <1>1, <1>4, <1>5, <1>7 DEF WholeInv
<1>9. ASSUME ~overlapped', ~brokenOff' PROVE Alone'
  <2>1. /\ Alone /\ (\A q \in Ctls \ {p} : ctl[q].at = "idle") /\ ctlSafe = {ctlFile}
        /\ KeptRun(c, ctlSafe, ctlFile, Unheard(asked, trusting, paired), paired)
    BY <1>1, <1>9, AloneFacts
  <2>2. KeptRun(x, ctlSafe, ctlFile, Unheard(asked, trusting, paired), paired)
    BY <2>1, <1>1, <1>2 DEF KeptRun, Saving
  <2>3. ctlSafe' = ctlSafe
    BY <2>1, <1>1
  <2>4. \A a, b \in Ctls : ctl'[a].at # "idle" /\ ctl'[b].at # "idle" => a = b
    BY <2>1, <1>5
  <2>5. \A a \in Ctls : ctl'[a].at # "idle" =>
           KeptRun(ctl'[a], ctlSafe, ctlFile, Unheard(asked, trusting, paired), paired)
    BY <2>1, <2>2, <1>5
  <2>6. /\ \A s \in Hosts : \A d \in trusting[s] : Agreed(d, ctlSafe)
        /\ \A r \in asked : Agreed(r.device, ctlSafe)
        /\ \A f \in ctlSafe : Has(f.body, paired)
    BY <2>1 DEF Alone
  <2> QED
    BY <2>1, <2>3, <2>4, <2>5, <2>6, <1>1 DEF Alone
<1> QED
  BY <1>6, <1>8, <1>9 DEF CtlInv, KeptInv

LEMMA RenamesStep ==
  ASSUME CtlInv, NEW p \in Ctls, RenameTemp(p)
  PROVE  CtlInv'
<1> DEFINE c == ctl[p]
           x == [c EXCEPT !.temp = NoState, !.at = "settles"]
<1>0. c \in CtlRuns /\ WholeRun(c, folder, trusting) /\ c.mem \in CtlStates /\ c.temp \in CtlFiles
      /\ ctl \in [Ctls -> CtlRuns] /\ ctlFile \in ctlSafe /\ GoodState(c.mem, trusting)
  BY CtlRunFacts DEF CtlInv, CtlType
<1>1. /\ c.at = "renames" /\ ctl' = [ctl EXCEPT ![p] = x] /\ ctlSafe' = ctlSafe \cup {c.temp}
      /\ ctlFile' = c.temp /\ folder' = folder /\ trusting' = trusting /\ asked' = asked
      /\ paired' = paired /\ overlapped' = overlapped /\ brokenOff' = brokenOff /\ devices' = devices
  BY <1>0 DEF RenameTemp, NetworkIdle
<1>2. x \in CtlRuns /\ x.at = "settles" /\ x.mem = c.mem /\ x.stage = c.stage
      /\ x.server = c.server /\ x.url = c.url /\ x.temp = NoState
  BY <1>0, CtlConstants DEF CtlRuns, CtlPoints
<1>3. c.temp.body = c.mem /\ c.temp.synced /\ folder.own # NoPath
  BY <1>0, <1>1 DEF WholeRun
<1>4. ctl'[p] = x /\ \A q \in Ctls \ {p} : ctl'[q] = ctl[q]
  BY <1>0, <1>1
<1>5. CtlType'
  BY <1>0, <1>1, <1>2 DEF CtlInv, CtlType
<1> HIDE DEF x, c
<1>6. WholeRun(x, folder, trusting)
  BY <1>0, <1>1, <1>2, <1>3 DEF WholeRun
<1>7. WholeInv'
  <2>1. WholeFile(c.temp, trusting)
    BY <1>0, <1>3 DEF WholeFile
  <2>2. \A f \in ctlSafe' : WholeFile(f, trusting)
    BY <2>1, <1>1 DEF CtlInv, WholeInv
  <2>3. \A q \in Ctls : WholeRun(ctl'[q], folder, trusting)
    BY <1>4, <1>6 DEF CtlInv, WholeInv
  <2> QED
    BY <2>2, <2>3, <1>1, <1>3 DEF WholeInv
<1>8. ASSUME ~overlapped', ~brokenOff' PROVE Alone'
  <2>1. /\ Alone /\ (\A q \in Ctls \ {p} : ctl[q].at = "idle") /\ ctlSafe = {ctlFile}
        /\ KeptRun(c, ctlSafe, ctlFile, Unheard(asked, trusting, paired), paired)
    BY <1>1, <1>8, AloneFacts DEF c
  <2>2. /\ Has(c.mem, paired) /\ c.stage \in {"device", "final"}
        /\ c.stage = "final" => Agreed(c.mem.device, ctlSafe) /\ Holds(c.mem, c.server)
                                /\ c.mem.default = c.server
        /\ c.stage = "device" => Unheard(asked, trusting, paired)
    BY <2>1, <1>0, <1>1 DEF KeptRun, Saving, CtlRuns
  <2>3. c.stage = "final" => Agreed(c.mem.device, ctlSafe')
    BY <2>2, <1>1, <1>3 DEF Agreed
  <2>4. KeptRun(x, ctlSafe', c.temp, Unheard(asked, trusting, paired), paired)
    BY <2>2, <2>3, <1>2, <1>3 DEF KeptRun, Saving
  <2>5. ASSUME NEW s \in Hosts, NEW d \in trusting[s] PROVE Agreed(d, ctlSafe')
    <3>1. Agreed(d, ctlSafe) /\ c.stage = "final"
      BY <2>1, <2>2 DEF Alone, Unheard
    <3> QED
      BY <3>1, <2>3, <2>2, <1>0 DEF Agreed
  <2>6. ASSUME NEW r \in asked PROVE Agreed(r.device, ctlSafe')
    <3>1. Agreed(r.device, ctlSafe) /\ c.stage = "final"
      BY <2>1, <2>2 DEF Alone, Unheard
    <3> QED
      BY <3>1, <2>3, <2>2, <1>0 DEF Agreed
  <2>7. \A f \in ctlSafe' : Has(f.body, paired)
    BY <2>1, <2>2, <1>1, <1>3 DEF Alone
  <2>8. \A a, b \in Ctls : ctl'[a].at # "idle" /\ ctl'[b].at # "idle" => a = b
    BY <2>1, <1>4
  <2>9. \A a \in Ctls : ctl'[a].at # "idle" =>
           KeptRun(ctl'[a], ctlSafe', c.temp, Unheard(asked, trusting, paired), paired)
    BY <2>1, <2>4, <1>4
  <2>10. ctl'[p].at = "settles"
    BY <1>2, <1>4
  <2> QED
    BY <2>5, <2>6, <2>7, <2>8, <2>9, <2>10, <1>1 DEF Alone
<1> QED
  BY <1>5, <1>7, <1>8 DEF CtlInv, KeptInv

LEMMA SettlesStep ==
  ASSUME CtlInv, NEW p \in Ctls, SyncParent(p)
  PROVE  CtlInv'
<1> DEFINE c == ctl[p]
           x == IF c.stage = "device" THEN [c EXCEPT !.at = "sends"] ELSE IdleCtl
           pd == IF c.stage = "device" THEN paired ELSE paired \cup {c.server}
<1>0. c \in CtlRuns /\ WholeRun(c, folder, trusting) /\ c.mem \in CtlStates
      /\ ctl \in [Ctls -> CtlRuns] /\ ctlFile \in ctlSafe /\ paired \subseteq Hosts
  BY CtlRunFacts DEF CtlInv, CtlType
<1>1. /\ c.at = "settles" /\ ctl' = [ctl EXCEPT ![p] = x] /\ ctlSafe' = {ctlFile}
      /\ ctlFile' = ctlFile /\ folder' = folder /\ trusting' = trusting /\ asked' = asked
      /\ paired' = pd /\ overlapped' = overlapped /\ brokenOff' = brokenOff /\ devices' = devices
  BY <1>0 DEF SyncParent, NetworkIdle, CommandEnds
<1>2. /\ x \in CtlRuns
      /\ c.stage = "device" => /\ x.at = "sends" /\ x.mem = c.mem /\ x.stage = c.stage
                               /\ x.server = c.server /\ x.url = c.url
      /\ c.stage # "device" => x.at = "idle" /\ x.mem = EmptyState
  BY <1>0, CtlConstants DEF CtlRuns, CtlPoints
<1>3. c.server \in Hosts /\ pd \subseteq Hosts
  BY <1>0, <1>1 DEF WholeRun
<1>4. ctl'[p] = x /\ \A q \in Ctls \ {p} : ctl'[q] = ctl[q]
  BY <1>0, <1>1
<1>5. CtlType'
  BY <1>0, <1>1, <1>2, <1>3 DEF CtlInv, CtlType
<1> HIDE DEF x, c
<1>6. WholeRun(x, folder, trusting)
  BY <1>0, <1>1, <1>2, CtlConstants DEF WholeRun
<1>7. WholeInv'
  <2>1. \A f \in ctlSafe' : WholeFile(f, trusting)
    BY <1>0, <1>1 DEF CtlInv, WholeInv
  <2>2. \A q \in Ctls : WholeRun(ctl'[q], folder, trusting)
    BY <1>4, <1>6 DEF CtlInv, WholeInv
  <2>3. folder.own # NoPath
    BY <1>0, <1>1 DEF WholeRun
  <2> QED
    BY <2>1, <2>2, <2>3, <1>1 DEF WholeInv
<1>8. ASSUME ~overlapped', ~brokenOff' PROVE Alone'
  <2>1. /\ Alone /\ (\A q \in Ctls \ {p} : ctl[q].at = "idle")
        /\ KeptRun(c, ctlSafe, ctlFile, Unheard(asked, trusting, paired), paired)
    BY <1>1, <1>8, AloneFacts DEF c
  <2>2. /\ Has(c.mem, paired) /\ ctlFile.body = c.mem
        /\ c.stage # "device" => Agreed(c.mem.device, ctlSafe) /\ Holds(c.mem, c.server)
                                /\ c.mem.default = c.server
    <3>1. c.stage \in {"device", "final"}
      BY <1>0 DEF CtlRuns
    <3> QED
      BY <2>1, <3>1, <1>1 DEF KeptRun, Saving
  <2>3. Agreed(c.mem.device, ctlSafe')
    BY <2>2, <1>1 DEF Agreed
  <2>4. Has(c.mem, pd)
    <3>1. c.mem.device # 0
      BY <1>0, <1>1 DEF WholeRun
    <3>2. CASE c.stage = "device"
      BY <3>2, <2>2
    <3>3. CASE c.stage # "device"
      <4>1. \A s \in paired : Holds(c.mem, s)
        BY <2>2 DEF Has
      <4> QED
        BY <3>1, <3>3, <4>1, <2>2 DEF Has
    <3> QED
      BY <3>2, <3>3
  <2> HIDE DEF pd
  <2>5. ASSUME NEW fr, x.at # "idle" PROVE KeptRun(x, ctlSafe', ctlFile, fr, pd)
    <3>1. c.stage = "device" /\ x.at = "sends" /\ x.mem = c.mem /\ x.stage = "device"
      BY <2>5, <1>2
    <3> QED
      BY <3>1, <2>3, <2>4 DEF KeptRun, Saving
  <2>6. /\ \A s \in Hosts : \A d \in trusting[s] : Agreed(d, ctlSafe')
        /\ \A r \in asked : Agreed(r.device, ctlSafe')
    BY <2>1, <1>0, <1>1 DEF Alone, Agreed
  <2>7. \A f \in ctlSafe' : Has(f.body, pd)
    BY <2>2, <2>4, <1>1
  <2>8. \A a, b \in Ctls : ctl'[a].at # "idle" /\ ctl'[b].at # "idle" => a = b
    BY <2>1, <1>4
  <2>9. \A a \in Ctls : ctl'[a].at # "idle" =>
           KeptRun(ctl'[a], ctlSafe', ctlFile, Unheard(asked, trusting, pd), pd)
    BY <2>1, <2>5, <1>4
  <2> QED
    BY <2>6, <2>7, <2>8, <2>9, <1>1 DEF Alone
<1> QED
  BY <1>5, <1>7, <1>8 DEF CtlInv, KeptInv

LEMMA CrashStep ==
  ASSUME CtlInv, Crash
  PROVE  CtlInv'
<1>1. PICK f \in ctlSafe : ctlFile' = AfterCrash(f)
  BY DEF Crash
<1>2. /\ ctlSafe' = {ctlFile'} /\ ctl' = [p \in Ctls |-> IdleCtl]
      /\ folder' = folder /\ trusting' = trusting /\ asked' = asked
      /\ paired' = paired /\ overlapped' = overlapped /\ brokenOff' = brokenOff /\ devices' = devices
  BY DEF Crash, NetworkIdle
<1>3. WholeFile(f, trusting) /\ f \in CtlFiles
  BY DEF CtlInv, WholeInv, CtlType
<1>4. ctlFile' = f
  BY <1>1, <1>3 DEF AfterCrash, WholeFile
<1>5. \A p \in Ctls : ctl'[p] = IdleCtl
  BY <1>2
<1>6. CtlType'
  BY <1>2, <1>3, <1>4, CtlConstants DEF CtlInv, CtlType
<1>7. WholeInv'
  <2>1. WholeRun(IdleCtl, folder, trusting)
    BY CtlConstants DEF WholeRun
  <2>2. folder.own = NoPath => f = NoState
    BY DEF CtlInv, WholeInv
  <2> QED
    BY <2>1, <2>2, <1>2, <1>3, <1>4, <1>5 DEF WholeInv
<1>8. ASSUME ~overlapped', ~brokenOff' PROVE Alone'
  <2>1. Alone
    BY <1>2, <1>8 DEF CtlInv, KeptInv
  <2>2. \A d : Agreed(d, ctlSafe) => Agreed(d, ctlSafe')
    BY <1>2, <1>4 DEF Agreed
  <2>3. Has(f.body, paired)
    BY <2>1 DEF Alone
  <2>4. \A p \in Ctls : ctl'[p].at = "idle"
    BY <1>5, CtlConstants
  <2> QED
    BY <2>1, <2>2, <2>3, <2>4, <1>2, <1>4 DEF Alone
<1> QED
  BY <1>6, <1>7, <1>8 DEF CtlInv, KeptInv

LEMMA CtlStep == CtlInv /\ [CtlNext]_ctlVars => CtlInv'
<1> SUFFICES ASSUME CtlInv, [CtlNext]_ctlVars PROVE CtlInv'
  OBVIOUS
<1>1. CASE UNCHANGED ctlVars
  BY <1>1 DEF ctlVars, CtlInv, CtlType, WholeInv, KeptInv, Alone
<1>2. CASE Crash
  BY <1>2, CrashStep
<1>3. CASE \E r \in asked : DaemonPairs(r)
  BY <1>3, DaemonStep
<1>4. ASSUME NEW p \in Ctls,
             \/ Pair(p) \/ PairDeviceSends(p) \/ PairDeviceFails(p)
             \/ PairRecords(p) \/ OpenStateParent(p) \/ CreateTemp(p)
             \/ WriteTemp(p) \/ SyncTemp(p) \/ RenameTemp(p) \/ SyncParent(p)
             \/ SaveFails(p)
      PROVE  CtlInv'
  BY <1>4, PairStep, SendsStep, FailsStep, RecordsStep, OpensStep, SaveCalls, RenamesStep, SettlesStep
<1> QED
  BY <1>1, <1>2, <1>3, <1>4 DEF CtlNext

LEMMA CtlStart == CtlInit => CtlInv
<1> SUFFICES ASSUME CtlInit PROVE CtlInv
  OBVIOUS
<1>0. (CHOOSE s \in Hosts : TRUE) \in Hosts /\ (CHOOSE u \in Urls : TRUE) \in Urls /\ MaxDevice \in Nat
  BY CtlAssumption
<1> DEFINE e == [id |-> CHOOSE s \in Hosts : TRUE, url |-> CHOOSE u \in Urls : TRUE, cert |-> 0]
<1>1. e \in CtlEntries /\ e.cert = 0
  BY <1>0 DEF CtlEntries
<1>2. OldState = [device |-> 0, servers |-> <<e>>, default |-> NoServer]
  BY DEF OldState
<1> HIDE DEF e
<1>3. OldState \in CtlStates /\ OldState.device = 0 /\ OldState.servers = <<e>>
  BY <1>0, <1>1, <1>2 DEF CtlStates
<1>4. DOMAIN <<e>> = {1} /\ <<e>>[1] = e
  OBVIOUS
<1>5. GoodState(OldState, trusting)
  BY <1>1, <1>3, <1>4 DEF GoodState
<1>6. /\ ctl = [p \in Ctls |-> IdleCtl] /\ folder \in Folders /\ ctlSafe = {ctlFile} /\ asked = {}
      /\ trusting = [s \in Hosts |-> {}] /\ paired = {} /\ overlapped = FALSE /\ brokenOff = FALSE
      /\ devices = 0
      /\ folder.own = NoPath => ctlFile = NoState
      /\ ctlFile \in {NoState, [NewFile(OldState) EXCEPT !.synced = TRUE],
                      [NewFile(OldState) EXCEPT !.synced = TRUE, !.private = FALSE]}
  BY DEF CtlInit
<1>7. ctlFile \in CtlFiles /\ WholeFile(ctlFile, trusting) /\ ctlFile.body.device = 0
  <2>1. CASE ctlFile = NoState
    BY <2>1, CtlConstants DEF WholeFile
  <2>2. CASE ctlFile = [NewFile(OldState) EXCEPT !.synced = TRUE]
    BY <2>2, <1>3, <1>5 DEF WholeFile, NewFile, CtlFiles
  <2>3. CASE ctlFile = [NewFile(OldState) EXCEPT !.synced = TRUE, !.private = FALSE]
    BY <2>3, <1>3, <1>5 DEF WholeFile, NewFile, CtlFiles
  <2> QED
    BY <2>1, <2>2, <2>3, <1>6
<1>8. CtlType
  <2>1. folder \in [above : Directories, own : Directories]
    BY <1>6, CtlAssumption
  <2>2. ctl \in [Ctls -> CtlRuns]
    BY <1>6, CtlConstants
  <2>3. trusting \in [Hosts -> SUBSET (1..MaxDevice)]
    BY <1>6
  <2>4. ctlSafe = {ctlFile} /\ asked = {} /\ paired = {} /\ overlapped = FALSE /\ brokenOff = FALSE
    BY <1>6
  <2>5. devices \in 0..MaxDevice
    BY <1>0, <1>6
  <2> QED
    BY ONLY <2>1, <2>2, <2>3, <2>4, <2>5, <1>7 DEF CtlType
<1>9. WholeInv
  <2>1. WholeRun(IdleCtl, folder, trusting)
    BY CtlConstants DEF WholeRun
  <2> QED
    BY <2>1, <1>6, <1>7 DEF WholeInv
<1>10. Alone
  <2>1. \A p \in Ctls : ctl[p].at = "idle"
    BY <1>6, CtlConstants
  <2>2. \A s \in Hosts : trusting[s] = {}
    BY <1>6
  <2> QED
    BY <2>1, <2>2, <1>6 DEF Alone, Has
<1> QED
  BY <1>8, <1>9, <1>10 DEF CtlInv, KeptInv

LEMMA CtlInvSuffices == CtlInv => CtlTypeOK /\ PairingIsKept
<1> SUFFICES ASSUME CtlInv PROVE CtlTypeOK /\ PairingIsKept
  OBVIOUS
<1>1. CtlTypeOK
  <2>1. \A p \in Ctls : ctl[p].at \in CtlPoints /\ ctl[p].mem \in CtlStates /\ ctl[p].stage \in {"device", "final"}
    BY CtlRunFacts
  <2>2. \A p \in Ctls : ctl[p].mem.device \in 0..MaxDevice
    BY <2>1 DEF CtlStates
  <2> QED
    BY <2>1, <2>2 DEF CtlTypeOK, CtlPoints, CtlInv, CtlType
<1>2. ASSUME NEW f \in ctlSafe
      PROVE  /\ AfterCrash(f) = f /\ f.body \in CtlStates /\ GoodState(f.body, trusting)
  BY DEF AfterCrash, CtlInv, WholeInv, WholeFile
<1>3. StateFileIsWhole
  BY <1>2, CtlConstants DEF StateFileIsWhole, GoodState
<1>4. ASSUME ~overlapped, ~brokenOff, NEW f \in ctlSafe, NEW s \in Hosts
      PROVE  /\ \A d \in trusting[s] : f.body.device = d
             /\ s \in paired => /\ s \in KnownServers(f.body)
                                /\ Accepted(f.body, PairedServer(f.body, s), PairedServer(f.body, s).url)
                                /\ Authenticates(f.body, "no url")
  <2> DEFINE st == f.body
  <2>0. Alone /\ st \in CtlStates /\ GoodState(st, trusting)
    BY <1>2, <1>4 DEF CtlInv, KeptInv
  <2>1. \A d \in trusting[s] : st.device = d
    BY <2>0 DEF Alone, Agreed
  <2>2. Has(st, paired)
    BY <2>0 DEF Alone
  <2> HIDE DEF st
  <2>3. ASSUME st.device # 0, NEW t, Holds(st, t)
        PROVE  /\ t \in KnownServers(st) /\ t \in Hosts
               /\ Accepted(st, PairedServer(st, t), PairedServer(st, t).url)
    <3>1. PICK i \in DOMAIN st.servers : st.servers[i].id = t /\ st.servers[i].cert = st.device
      BY <2>3 DEF Holds
    <3>2. PairedServer(st, t) = st.servers[i]
      BY <3>1, <2>0, OneEntry DEF PairedServer
    <3>3. Accepted(st, st.servers[i], st.servers[i].url)
      BY <3>1, <2>0, <2>3 DEF Accepted, GoodState
    <3> QED
      BY <3>1, <3>2, <3>3, <2>0, EntryTypes DEF KnownServers
  <2>4. ASSUME s \in paired
        PROVE  /\ s \in KnownServers(st) /\ Accepted(st, PairedServer(st, s), PairedServer(st, s).url)
               /\ Authenticates(st, "no url")
    <3>1. st.device # 0 /\ Holds(st, st.default) /\ Holds(st, s)
      BY <2>2, <2>4 DEF Has
    <3>2. s \in KnownServers(st) /\ Accepted(st, PairedServer(st, s), PairedServer(st, s).url)
      BY <2>3, <3>1
    <3>3. /\ st.default \in KnownServers(st) /\ st.default \in Hosts
          /\ Accepted(st, PairedServer(st, st.default), PairedServer(st, st.default).url)
      BY <2>3, <3>1
    <3>4. st.default # NoServer
      BY <3>3, CtlAssumption
    <3>5. SelectedTarget(st, "no url") = {PairedServer(st, st.default)}
      BY <3>3, <3>4 DEF SelectedTarget, SelectedRoute
    <3>6. Authenticates(st, "no url")
      BY <3>3, <3>5 DEF Authenticates
    <3> QED
      BY <3>2, <3>6
  <2> QED
    BY <2>1, <2>4 DEF st
<1>5. PairedDeviceIsKept
  BY <1>2, <1>4 DEF PairedDeviceIsKept
<1> QED
  BY <1>1, <1>3, <1>5 DEF PairingIsKept

(* termctl's state file, for any number of commands at once, daemons,      *)
(* addresses, faults and crashes: it is always whole, its certificates are *)
(* good, and while commands run one after another and none is broken off   *)
(* after its rename, no crash, lost answer or failed save loses the device *)
(* a daemon accepted or an entry the user was told of (state.rs            *)
(* save_state_file_with_sync, cli.rs ensure_pairing_device_persisted).     *)
THEOREM PairingSurvives == CtlSpec => [](CtlTypeOK /\ PairingIsKept)
<1>1. CtlInit => CtlInv
  BY CtlStart
<1>2. CtlInv /\ [CtlNext]_ctlVars => CtlInv'
  BY CtlStep
<1>3. CtlInv => CtlTypeOK /\ PairingIsKept
  BY CtlInvSuffices
<1> QED
  BY <1>1, <1>2, <1>3, PTL DEF CtlSpec
----------------------------------------------------------------------------
(* The history of sessions *)

HistNames == Titles \cup {"auto", "restored", "none"}
HistSts == {"none", "running", "closed"}
HistRow == [st : HistSts, name : HistNames, ord : Int, at : Int]
HistDb == [ver : Int, ident : Int, ordered : BOOLEAN, rt : [Terms -> HistSts],
           row : [Terms -> HistRow]]
HistMem == [ident : Int, idx : SUBSET Terms, name : [Terms -> HistNames]]
HistStages == {"off", "loaded", "opened", "recovered", "restored", "serving", "refused"}

HistTypes ==
  /\ db \in HistDb /\ mem \in HistMem
  /\ json \in [ver : Int, ident : Int]
  /\ boots \in Nat /\ stage \in HistStages
  /\ supv \in [Terms -> {"never", "live", "dead"}]
  /\ given \in [Terms -> HistNames]
  /\ promised \in SUBSET (Terms \X Terms)
  /\ listedNames \in SUBSET Int

(* Sessions that were ever started bound how far above the list a new one  *)
(* can be put.                                                             *)
HasStarted == {t \in Terms : supv[t] # "never"}
OrdInv == \A t \in Terms : db.row[t].ord \in (-Cardinality(HasStarted))..NumTerms

(* A session of the index has a visible row, and so has one a start may    *)
(* get back; what a client was told of its name stands in the row.         *)
TermInv(t) ==
  /\ supv[t] = "never" => /\ db.row[t].st = "none" /\ db.rt[t] = "none"
                          /\ given[t] = "none" /\ t \notin mem.idx
  /\ db.row[t].st # "none" => db.row[t].at = t /\ db.row[t].name # "none"
  /\ t \in mem.idx => db.row[t].st = "running"
  /\ db.rt[t] = "running" /\ supv[t] = "live" => db.row[t].st = "running"
  /\ stage = "recovered" /\ db.rt[t] = "running" /\ supv[t] = "live" => t \in mem.idx
  /\ given[t] # "none" => db.row[t].st = "running" /\ db.row[t].name = given[t]
  /\ given[t] # "none" /\ stage \in {"recovered", "restored", "serving"} => t \in mem.idx
  /\ stage \in {"off", "refused", "loaded", "opened"} => t \notin mem.idx
  /\ stage \in {"restored", "serving"} /\ t \in mem.idx => mem.name[t] # "none"

(* What was promised about the order is about visible rows. *)
OrderInv ==
  /\ promised # {} \/ stage \in {"opened", "recovered", "restored", "serving"}
       => db.ordered
  /\ \A a, b \in Terms : <<a, b>> \in promised =>
       /\ db.row[a].st = "running" /\ db.row[b].st = "running"
       /\ <<a, a>> \in promised /\ <<b, b>> \in promised
       /\ a # b => Before(db, a, b)
       /\ stage = "recovered" => a \in mem.idx /\ b \in mem.idx

(* The identity that was served is in the database; until the start saves  *)
(* it, the one it has loaded or made is in memory.                         *)
IdentInv ==
  /\ listedNames # {} => db.ident # 0 /\ listedNames = {db.ident}
  /\ stage \notin {"off", "refused"} =>
       mem.ident # 0 /\ (db.ident # 0 => mem.ident = db.ident)
  /\ stage = "loaded" => mem.ident = IF Loaded(db) # 0 THEN Loaded(db) ELSE boots
  /\ stage \in {"restored", "serving"} => db.ident = mem.ident
  /\ stage = "loaded" => boots > 0

HistInv ==
  /\ HistTypes
  /\ OrdInv
  /\ \A t \in Terms : TermInv(t)
  /\ OrderInv
  /\ IdentInv

(* e is d but for its rows. *)
RowsOnly(e, d) ==
  e \in HistDb /\ e.ident = d.ident /\ e.ordered = d.ordered /\ e.rt = d.rt

LEMMA RowUpdate ==
  ASSUME NEW d \in HistDb, NEW t \in Terms, NEW r \in HistRow
  PROVE  /\ RowsOnly([d EXCEPT !.row[t] = r], d)
         /\ [d EXCEPT !.row[t] = r].row = [d.row EXCEPT ![t] = r]
  BY DEF RowsOnly, HistDb

LEMMA RowsUpdate ==
  ASSUME NEW d \in HistDb, NEW rr \in [Terms -> HistRow]
  PROVE  RowsOnly([d EXCEPT !.row = rr], d) /\ [d EXCEPT !.row = rr].row = rr
  BY DEF RowsOnly, HistDb

(* The rows there are have a lowest order. *)
LEMMA LowestIs ==
  ASSUME NEW d \in HistDb, NEW lo \in Int, Rows(d) # {},
         \A t \in Terms : d.row[t].ord >= lo
  PROVE  /\ Lowest(d) \in Orders(d) /\ Lowest(d) \in Int
         /\ \A t \in Rows(d) : Lowest(d) <= d.row[t].ord
<1> DEFINE T == {o - lo : o \in Orders(d)}
<1>1. \A t \in Rows(d) : t \in Terms /\ d.row[t].ord \in Int /\ d.row[t].ord \in Orders(d)
  BY DEF Rows, Orders, HistDb, HistRow
<1>2. \A o \in Orders(d) : o \in Int /\ o >= lo
  BY <1>1 DEF Orders
<1>3. T \in SUBSET Nat /\ T # {}
  BY <1>1, <1>2
<1>4. PICK m \in T : \A k \in T : m <= k
  BY <1>3, LeastNat
<1>5. PICK o \in Orders(d) : m = o - lo
  BY <1>4
<1>6. \A p \in Orders(d) : o <= p
  <2> SUFFICES ASSUME NEW p \in Orders(d) PROVE o <= p
    OBVIOUS
  <2>1. p - lo \in T
    OBVIOUS
  <2>2. m <= p - lo
    BY <2>1, <1>4
  <2> QED
    BY <2>2, <1>5, <1>2
<1>7. Lowest(d) \in Orders(d) /\ \A p \in Orders(d) : Lowest(d) <= p
  BY <1>6 DEF Lowest
<1> QED
  BY <1>7, <1>1, <1>2

(* A row that is made goes above every row there is. *)
MadeRow(d, t) == RowCreated(d, t).row[t]
LEMMA CreatedRow ==
  ASSUME NEW d \in HistDb, NEW t \in Terms, NEW lo \in Nat,
         \A u \in Terms : d.row[u].ord \in (-lo)..NumTerms
  PROVE  /\ RowsOnly(RowCreated(d, t), d)
         /\ RowCreated(d, t).row = [d.row EXCEPT ![t] = MadeRow(d, t)]
         /\ MadeRow(d, t) \in HistRow
         /\ MadeRow(d, t).st = "running" /\ MadeRow(d, t).name = "auto"
         /\ MadeRow(d, t).at = t
         /\ MadeRow(d, t).ord \in (-(lo + 1))..NumTerms
         /\ \A u \in Rows(d) : MadeRow(d, t).ord < d.row[u].ord
<1> DEFINE o == IF Rows(d) = {} THEN 0 ELSE Lowest(d) - 1
           r == [st |-> "running", name |-> "auto", at |-> t, ord |-> o]
<1>0. NumTerms \in Nat /\ t \in Int
  BY SessionHistoryAssumption DEF Terms
<1>1. o \in (-(lo + 1))..NumTerms /\ \A u \in Rows(d) : o < d.row[u].ord
  <2>1. CASE Rows(d) = {}
    BY <2>1, <1>0
  <2>2. CASE Rows(d) # {}
    <3>1. -lo \in Int /\ \A u \in Terms : d.row[u].ord >= -lo
      <4>1. -lo \in Int
        OBVIOUS
      <4>2. \A o2 \in (-lo)..NumTerms : o2 >= -lo
        BY <4>1, <1>0
      <4> QED
        BY <4>1, <4>2
    <3>2. /\ Lowest(d) \in Orders(d) /\ Lowest(d) \in Int
          /\ \A u \in Rows(d) : Lowest(d) <= d.row[u].ord
      BY <3>1, <2>2, LowestIs
    <3>3. Lowest(d) \in (-lo)..NumTerms
      BY <3>2 DEF Orders, Rows
    <3>4. \A u \in Rows(d) : d.row[u].ord \in Int
      BY DEF Rows, HistDb, HistRow
    <3> QED
      BY <2>2, <3>2, <3>3, <3>4, <1>0
  <2> QED
    BY <2>1, <2>2
<1>2. o \in Int
  BY <1>1, <1>0
<1>3. RowCreated(d, t) = [d EXCEPT !.row[t] = r]
  BY DEF RowCreated
<1> HIDE DEF o
<1>4. r \in HistRow
  BY <1>2, <1>0 DEF HistRow, HistSts, HistNames
<1>5. r.st = "running" /\ r.name = "auto" /\ r.at = t /\ r.ord = o
  OBVIOUS
<1> HIDE DEF r
<1>6. /\ RowsOnly(RowCreated(d, t), d)
      /\ RowCreated(d, t).row = [d.row EXCEPT ![t] = r]
  BY <1>3, <1>4, RowUpdate
<1>7. MadeRow(d, t) = r
  BY <1>6 DEF MadeRow, HistDb
<1> QED
  BY <1>1, <1>4, <1>5, <1>6, <1>7

LEMMA RenamedRow ==
  ASSUME NEW d \in HistDb, NEW t \in Rows(d), NEW n \in HistNames
  PROVE  /\ RowsOnly(RowRenamed(d, t, n), d)
         /\ RowRenamed(d, t, n).row = [d.row EXCEPT ![t] = [@ EXCEPT !.name = n]]
<1>1. t \in Terms /\ d.row[t] \in HistRow
  BY DEF Rows, HistDb
<1>2. [d.row[t] EXCEPT !.name = n] \in HistRow
  BY <1>1 DEF HistRow
<1>3. RowRenamed(d, t, n) = [d EXCEPT !.row[t] = [d.row[t] EXCEPT !.name = n]]
  BY DEF RowRenamed
<1> QED
  BY <1>1, <1>2, <1>3, RowUpdate

LEMMA ClosedRow ==
  ASSUME NEW d \in HistDb, NEW t \in Rows(d)
  PROVE  /\ RowsOnly(RowClosed(d, t), d)
         /\ RowClosed(d, t).row = [d.row EXCEPT ![t] = [@ EXCEPT !.st = "closed"]]
<1>1. t \in Terms /\ d.row[t] \in HistRow
  BY DEF Rows, HistDb
<1>2. [d.row[t] EXCEPT !.st = "closed"] \in HistRow
  BY <1>1 DEF HistRow, HistSts
<1>3. RowClosed(d, t) = [d EXCEPT !.row[t] = [d.row[t] EXCEPT !.st = "closed"]]
  BY DEF RowClosed
<1> QED
  BY <1>1, <1>2, <1>3, RowUpdate

LEMMA NoRowType == NoRow \in HistRow /\ NoRow.st = "none" /\ NoRow.ord = 0
  BY DEF NoRow, HistRow, HistSts, HistNames

LEMMA PrunedRow ==
  ASSUME NEW d \in HistDb, NEW t \in Terms
  PROVE  /\ RowsOnly(RowPruned(d, t), d)
         /\ RowPruned(d, t).row = IF d.row[t].st = "closed"
                                  THEN [d.row EXCEPT ![t] = NoRow] ELSE d.row
<1>1. CASE d.row[t].st = "closed"
  BY <1>1, NoRowType, RowUpdate DEF RowPruned
<1>2. CASE d.row[t].st # "closed"
  BY <1>2 DEF RowPruned, RowsOnly
<1> QED
  BY <1>1, <1>2

LEMMA PrunedRows ==
  ASSUME NEW d \in HistDb
  PROVE  /\ RowsOnly(RowsPruned(d), d)
         /\ RowsPruned(d).row = [u \in Terms |-> IF d.row[u].st = "closed" THEN NoRow
                                                 ELSE d.row[u]]
<1> DEFINE rr == [u \in Terms |-> IF d.row[u].st = "closed" THEN NoRow ELSE d.row[u]]
<1>1. rr \in [Terms -> HistRow]
  BY NoRowType DEF HistDb
<1>2. RowsPruned(d) = [d EXCEPT !.row = rr]
  BY DEF RowsPruned
<1> HIDE DEF rr
<1>3. RowsOnly([d EXCEPT !.row = rr], d) /\ [d EXCEPT !.row = rr].row = rr
  BY <1>1, RowsUpdate
<1> QED
  BY <1>2, <1>3 DEF rr

(* A row that is there and has a name is only made visible. *)
LEMMA RestoredRow ==
  ASSUME NEW d \in HistDb, NEW t \in Rows(d), NEW n, d.row[t].name # "none"
  PROVE  /\ RowsOnly(RowRestored(d, t, n), d)
         /\ RowRestored(d, t, n).row = [d.row EXCEPT ![t] = [@ EXCEPT !.st = "running"]]
<1>1. t \in Terms /\ d.row[t] \in HistRow
  BY DEF Rows, HistDb
<1> DEFINE r == [d.row[t] EXCEPT !.st = "running"]
<1>2. r \in HistRow
  BY <1>1 DEF HistRow, HistSts
<1>3. [d.row[t] EXCEPT !.st = "running", !.name = CoalesceName(@, n)] = r
  BY <1>1 DEF CoalesceName, HistRow
<1>4. RowRestored(d, t, n)
        = [d EXCEPT !.row[t] = [d.row[t] EXCEPT !.st = "running", !.name = CoalesceName(@, n)]]
  BY <1>1 DEF RowRestored, HistDb, HistRow
<1> QED
  BY <1>1, <1>2, <1>3, <1>4, RowUpdate

(* e is d but for its projection rows. *)
RuntimeOnly(e, d) ==
  e \in HistDb /\ e.ident = d.ident /\ e.ordered = d.ordered /\ e.row = d.row

LEMMA RuntimeUpdate ==
  ASSUME NEW d \in HistDb, NEW rr \in [Terms -> HistSts]
  PROVE  RuntimeOnly([d EXCEPT !.rt = rr], d) /\ [d EXCEPT !.rt = rr].rt = rr
  BY DEF RuntimeOnly, HistDb

LEMMA RuntimeFacts ==
  ASSUME NEW d \in HistDb
  PROVE  /\ RuntimeOnly(RuntimePruned(d), d)
         /\ RuntimePruned(d).rt = [t \in Terms |-> IF d.rt[t] = "closed" THEN "none"
                                                   ELSE d.rt[t]]
         /\ \A t \in Terms : /\ RuntimeOnly(RuntimeClosed(d, t), d)
                             /\ RuntimeClosed(d, t).rt = [d.rt EXCEPT ![t] = "closed"]
         /\ \A t \in Terms : /\ RuntimeOnly([d EXCEPT !.rt[t] = "none"], d)
                             /\ [d EXCEPT !.rt[t] = "none"].rt = [d.rt EXCEPT ![t] = "none"]
         /\ \A t \in Terms : /\ RuntimeOnly([d EXCEPT !.rt[t] = "running"], d)
                             /\ [d EXCEPT !.rt[t] = "running"].rt = [d.rt EXCEPT ![t] = "running"]
<1> DEFINE rr == [t \in Terms |-> IF d.rt[t] = "closed" THEN "none" ELSE d.rt[t]]
<1>0. d.rt \in [Terms -> HistSts]
  BY DEF HistDb
<1>1. rr \in [Terms -> HistSts]
  BY <1>0 DEF HistSts
<1>2. RuntimePruned(d) = [d EXCEPT !.rt = rr]
  BY DEF RuntimePruned
<1>3. ASSUME NEW t \in Terms, NEW v \in HistSts
      PROVE  /\ RuntimeOnly([d EXCEPT !.rt[t] = v], d)
             /\ [d EXCEPT !.rt[t] = v].rt = [d.rt EXCEPT ![t] = v]
  <2>1. [d.rt EXCEPT ![t] = v] \in [Terms -> HistSts]
    BY <1>0
  <2>2. [d EXCEPT !.rt[t] = v] = [d EXCEPT !.rt = [d.rt EXCEPT ![t] = v]]
    OBVIOUS
  <2> QED
    BY <2>1, <2>2, RuntimeUpdate
<1> HIDE DEF rr
<1>4. RuntimeOnly(RuntimePruned(d), d) /\ RuntimePruned(d).rt = rr
  BY <1>1, <1>2, RuntimeUpdate
<1>5. {"none", "closed", "running"} \subseteq HistSts
  BY DEF HistSts
<1> QED
  BY <1>3, <1>4, <1>5 DEF rr, RuntimeClosed

LEMMA VersionedFacts ==
  ASSUME NEW d \in HistDb
  PROVE  /\ RowsOnly(Versioned(d), d) /\ Versioned(d).row = d.row
         /\ RowsOnly(Migrated(d), d) /\ Migrated(d).row = d.row
  BY DEF Versioned, Migrated, CurrentSchema, RowsOnly, HistDb

(* What a save writes. *)
SavedRt(d, run) ==
  [t \in Terms |-> IF t \in run /\ d.rt[t] # "closed" THEN "running" ELSE d.rt[t]]
LEMMA SavedFacts ==
  ASSUME NEW d \in HistDb, NEW id \in Int, NEW run
  PROVE  /\ Saved(d, id, run) \in HistDb
         /\ Saved(d, id, run).ident = id
         /\ Saved(d, id, run).ordered = d.ordered
         /\ Saved(d, id, run).row = d.row
         /\ Saved(d, id, run).rt = SavedRt(d, run)
<1>0. d.rt \in [Terms -> HistSts]
  BY DEF HistDb
<1>1. SavedRt(d, run) \in [Terms -> HistSts]
  BY <1>0 DEF SavedRt, HistSts
<1> DEFINE v == Versioned(d)
           rr == SavedRt(d, run)
<1>2. v \in HistDb /\ v.ordered = d.ordered /\ v.row = d.row /\ v.rt = d.rt
  BY VersionedFacts DEF RowsOnly
<1>3. Saved(d, id, run) = [v EXCEPT !.ident = id, !.rt = rr]
  BY <1>2 DEF Saved, SavedRt
<1>4. rr \in [Terms -> HistSts]
  BY <1>1
<1> HIDE DEF v, rr
<1> DEFINE w == [v EXCEPT !.ident = id, !.rt = rr]
<1>5. w.ident = id /\ w.ordered = v.ordered /\ w.row = v.row /\ w.rt = rr
  BY <1>2 DEF HistDb
<1>6. w \in HistDb
  BY <1>2, <1>4 DEF HistDb
<1> QED
  BY <1>2, <1>3, <1>5, <1>6 DEF rr

(* Opening the history numbers the rows of a database without an order.    *)
LEMMA TermsFinite ==
  /\ NumTerms \in Nat /\ IsFiniteSet(Terms) /\ Cardinality(Terms) = NumTerms
  /\ \A S \in SUBSET Terms : IsFiniteSet(S) /\ Cardinality(S) \in 0..NumTerms
<1>1. NumTerms \in Nat
  BY SessionHistoryAssumption
<1>2. IsFiniteSet(Terms) /\ Cardinality(Terms) = NumTerms
  BY <1>1, FS_Interval DEF Terms
<1>3. \A S \in SUBSET Terms : IsFiniteSet(S) /\ Cardinality(S) <= NumTerms
  BY <1>2, FS_Subset
<1> QED
  BY <1>1, <1>2, <1>3, FS_CardinalityType

LEMMA TermsInt == \A t \in Terms : t \in Int
  BY DEF Terms

LEMMA OpenedFacts ==
  ASSUME NEW d \in HistDb
  PROVE  LET e == HistoryOpened(d)
         IN  /\ e \in HistDb /\ e.ident = d.ident /\ e.rt = d.rt /\ e.ordered
             /\ d.ordered => e.row = d.row
             /\ \A t \in Terms : /\ e.row[t].st = d.row[t].st /\ e.row[t].at = d.row[t].at
                                 /\ e.row[t].name = d.row[t].name
                                 /\ e.row[t].ord # d.row[t].ord => e.row[t].ord \in 0..NumTerms
<1> DEFINE O(t) == Cardinality({o \in Rows(d) : d.row[o].at > d.row[t].at})
           rr == [t \in Terms |-> [d.row[t] EXCEPT !.ord = O(t)]]
           m == [d EXCEPT !.ordered = TRUE, !.row = rr]
<1>1. \A t \in Terms : O(t) \in 0..NumTerms
  <2> SUFFICES ASSUME NEW t \in Terms PROVE O(t) \in 0..NumTerms
    OBVIOUS
  <2>1. {o \in Rows(d) : d.row[o].at > d.row[t].at} \in SUBSET Terms
    BY DEF Rows
  <2> QED
    BY <2>1, TermsFinite
<1>2. \A t \in Terms : O(t) \in Int
  BY <1>1, TermsFinite
<1> HIDE DEF O
<1>3. \A t \in Terms : d.row[t] \in HistRow
  BY DEF HistDb
<1>4. \A t \in Terms : /\ rr[t] \in HistRow
                       /\ rr[t].st = d.row[t].st /\ rr[t].at = d.row[t].at
                       /\ rr[t].name = d.row[t].name /\ rr[t].ord = O(t)
  BY <1>2, <1>3 DEF HistRow
<1>5. rr \in [Terms -> HistRow]
  BY <1>4
<1>6. CASE d.ordered
  <2>1. HistoryOpened(d) = Versioned(d)
    BY <1>6 DEF HistoryOpened, OrderMigrated
  <2>2. Versioned(d) \in HistDb /\ Versioned(d).ident = d.ident /\ Versioned(d).rt = d.rt
        /\ Versioned(d).ordered /\ Versioned(d).row = d.row
    BY <1>6, VersionedFacts DEF RowsOnly
  <2> QED
    BY <2>1, <2>2
<1>7. CASE ~d.ordered
  <2>1. HistoryOpened(d) = Versioned(m)
    BY <1>7 DEF HistoryOpened, OrderMigrated, O
  <2> HIDE DEF rr
  <2>2. m \in HistDb /\ m.ident = d.ident /\ m.rt = d.rt /\ m.ordered /\ m.row = rr
    BY <1>5 DEF HistDb
  <2> HIDE DEF m
  <2>3. Versioned(m) \in HistDb /\ Versioned(m).ident = d.ident /\ Versioned(m).rt = d.rt
        /\ Versioned(m).ordered /\ Versioned(m).row = rr
    BY <2>2, VersionedFacts DEF RowsOnly
  <2>4. \A t \in Terms : /\ rr[t].st = d.row[t].st /\ rr[t].at = d.row[t].at
                         /\ rr[t].name = d.row[t].name /\ rr[t].ord \in 0..NumTerms
    BY <1>4, <1>1
  <2> QED
    BY <2>1, <2>3, <2>4, <1>7
<1> QED
  BY <1>6, <1>7

(* Where nothing is missing, the repair does nothing. *)
LEMMA NothingToRepair ==
  ASSUME NEW d
  PROVE  RepairedAll(d, {}) = {d}
<1>1. Cardinality({}) = 0 /\ 1..0 = {}
  BY FS_EmptySet
<1>2. \A q : q \in [{} -> {}] => DOMAIN q = {} /\ IsInjective(q)
  BY DEF IsInjective
<1>3. ASSUME NEW q, DOMAIN q = {}
      PROVE  RepairSeq(d, q) = d
  <2> DEFINE it == [s \in SUBSET {} |-> d]
             Op(f) == [s \in SUBSET {} |-> IF s = {} THEN d
                         ELSE LET x == Max(s) IN RepairOne(f[s \ {x}], q[x])]
  <2>1. \A f : Op(f) = it
    OBVIOUS
  <2>2. RepairSeq(d, q) = (CHOOSE f : f = Op(f))[{}]
    BY <1>3 DEF RepairSeq, FoldLeft, MapThenFoldSet
  <2> HIDE DEF Op
  <2>3. \A f : f = Op(f) <=> f = it
    BY <2>1
  <2>4. (CHOOSE f : f = Op(f)) = it
    BY <2>3
  <2>5. it[{}] = d
    OBVIOUS
  <2> QED
    BY <2>2, <2>4, <2>5
<1>4. [{} -> {}] # {}
  <2>1. [x \in {} |-> x] \in [{} -> {}]
    OBVIOUS
  <2> QED
    BY <2>1
<1>5. {q \in [1..Cardinality({}) -> {}] : IsInjective(q)} = [{} -> {}]
  BY <1>1, <1>2
<1>6. PICK q0 : q0 \in [{} -> {}]
  BY <1>4
<1>7. \A q \in [{} -> {}] : RepairSeq(d, q) = d
  BY <1>2, <1>3
<1>8. RepairedAll(d, {}) = {RepairSeq(d, q) : q \in [{} -> {}]}
  BY <1>5 DEF RepairedAll
<1> QED
  BY <1>6, <1>7, <1>8

(* The order recorded is the one the answer holds. *)
LEMMA OrderFacts ==
  ASSUME NEW d \in HistDb, NEW wish \in AskedOrders,
         \A t \in Known(d) : d.row[t].at = t
  PROVE  LET o == OrderOf(d, wish)
             e == OrderRecorded(d, o)
         IN  /\ RowsOnly(e, d)
             /\ \A t \in Terms : /\ e.row[t].st = d.row[t].st /\ e.row[t].at = d.row[t].at
                                 /\ e.row[t].name = d.row[t].name
                                 /\ e.row[t].ord # d.row[t].ord => e.row[t].ord \in 0..NumTerms
             /\ \A a, b \in Terms : <<a, b>> \in o =>
                  /\ a \in Known(d) /\ b \in Known(d)
                  /\ <<a, a>> \in o /\ <<b, b>> \in o
                  /\ a # b => e.row[a].ord < e.row[b].ord
<1> DEFINE o == OrderOf(d, wish)
           P(t) == {a \in Terms : <<a, t>> \in o}
           rr == [t \in Terms |-> IF t \in Members(o)
                    THEN [d.row[t] EXCEPT !.ord = Cardinality(P(t)) - 1] ELSE d.row[t]]
           L(a, b) == ListedAbove(d, wish, a, b)
           front == ToSet(wish)
<1>1. /\ \A i, j \in DOMAIN wish : wish[i] = wish[j] => i = j
      /\ DOMAIN wish \subseteq Int
      /\ \A x : x \in front <=> \E i \in DOMAIN wish : wish[i] = x
  <2>1. PICK k \in 0..NumTerms : wish \in {q \in [1..k -> Terms] : IsInjective(q)}
    BY DEF AskedOrders
  <2>2. wish \in [1..k -> Terms] /\ IsInjective(wish)
    BY <2>1
  <2>3. Len(wish) = k
    BY <2>2, TermsFinite
  <2> QED
    BY <2>2, <2>3 DEF IsInjective, ToSet
<1>2. \A t \in Known(d) : t \in Terms /\ t \in Int /\ d.row[t].ord \in Int
  <2>1. \A t \in Terms : t \in Int /\ d.row[t].ord \in Int
    BY TermsInt DEF HistDb, HistRow
  <2> QED
    BY <2>1 DEF Known
<1>3. \A a, b \in Known(d) : Before(d, a, b) => ~Before(d, b, a)
  BY <1>2 DEF Before
<1>4. \A a, b, c \in Known(d) : Before(d, a, b) /\ Before(d, b, c) => Before(d, a, c)
  BY <1>2 DEF Before
<1>5. \A a, b \in Known(d) : L(a, b) => ~L(b, a)
  BY <1>1, <1>3 DEF ListedAbove
<1>6. \A a, b, c \in Known(d) : L(a, b) /\ L(b, c) => L(a, c)
  <2> SUFFICES ASSUME NEW a \in Known(d), NEW b \in Known(d), NEW c \in Known(d),
                      L(a, b), L(b, c)
               PROVE  L(a, c)
    OBVIOUS
  <2>1. CASE a \in front /\ c \notin front
    BY <2>1 DEF ListedAbove
  <2>2. CASE a \in front /\ c \in front
    <3>1. b \in front
      BY <2>2, <1>1 DEF ListedAbove
    <3>2. PICK i, j \in DOMAIN wish : i < j /\ wish[i] = a /\ wish[j] = b
      BY <3>1 DEF ListedAbove
    <3>3. PICK k, l \in DOMAIN wish : k < l /\ wish[k] = b /\ wish[l] = c
      BY <2>2 DEF ListedAbove
    <3>4. j = k /\ i < l
      BY <3>2, <3>3, <1>1
    <3> QED
      BY <3>2, <3>3, <3>4 DEF ListedAbove
  <2>3. CASE a \notin front
    <3>1. b \notin front /\ c \notin front
      BY <2>3, <1>1 DEF ListedAbove
    <3> QED
      BY <2>3, <3>1, <1>1, <1>4 DEF ListedAbove
  <2> QED
    BY <2>1, <2>2, <2>3
<1>7. \A a, b : <<a, b>> \in o <=> a \in Known(d) /\ b \in Known(d) /\ (a = b \/ L(a, b))
  BY DEF OrderOf
<1>8. Members(o) = Known(d)
  BY <1>7, <1>2 DEF Members
<1> HIDE DEF L, front
<1>9. \A t \in Terms : IsFiniteSet(P(t)) /\ Cardinality(P(t)) \in 0..NumTerms
  BY TermsFinite
<1>10. \A a, b \in Known(d) : L(a, b) => Cardinality(P(a)) < Cardinality(P(b))
  <2> SUFFICES ASSUME NEW a \in Known(d), NEW b \in Known(d), L(a, b)
               PROVE  Cardinality(P(a)) < Cardinality(P(b))
    OBVIOUS
  <2>1. P(a) \in SUBSET P(b)
    BY <1>6, <1>7
  <2>2. b \in P(b) /\ b \notin P(a)
    <3>1. ~L(b, a) /\ a # b
      BY <1>5
    <3> QED
      BY <3>1, <1>7, <1>2
  <2>3. a \in Terms /\ b \in Terms
    BY <1>2
  <2> HIDE DEF P
  <2>4. Cardinality(P(a)) <= Cardinality(P(b)) /\ (Cardinality(P(b)) = Cardinality(P(a)) => P(b) = P(a))
    BY <2>1, <2>3, <1>9, FS_Subset
  <2> QED
    BY <2>2, <2>3, <2>4, <1>9, TermsFinite
<1>11. \A t \in Known(d) : Cardinality(P(t)) - 1 \in 0..NumTerms
  <2> SUFFICES ASSUME NEW t \in Known(d) PROVE Cardinality(P(t)) - 1 \in 0..NumTerms
    OBVIOUS
  <2>1. t \in Terms /\ t \in P(t)
    BY <1>2, <1>7
  <2>2. Cardinality(P(t)) # 0
    BY <2>1, <1>9, FS_EmptySet
  <2> QED
    BY <2>1, <2>2, <1>9, TermsFinite
<1>12. OrderRecorded(d, o) = [d EXCEPT !.row = rr]
  BY DEF OrderRecorded
<1> HIDE DEF o, P
<1>13. \A t \in Terms : d.row[t] \in HistRow
  BY DEF HistDb
<1>14. \A t \in Terms : /\ rr[t] \in HistRow
                        /\ rr[t].st = d.row[t].st /\ rr[t].at = d.row[t].at
                        /\ rr[t].name = d.row[t].name
                        /\ rr[t].ord = IF t \in Known(d) THEN Cardinality(P(t)) - 1
                                       ELSE d.row[t].ord
  BY <1>8, <1>11, <1>13, TermsFinite DEF HistRow
<1>15. rr \in [Terms -> HistRow]
  BY <1>14
<1> HIDE DEF rr
<1>16. RowsOnly(OrderRecorded(d, o), d) /\ OrderRecorded(d, o).row = rr
  BY <1>12, <1>15, RowsUpdate
<1>17. \A a, b \in Terms : <<a, b>> \in o =>
                  /\ a \in Known(d) /\ b \in Known(d)
                  /\ <<a, a>> \in o /\ <<b, b>> \in o
                  /\ a # b => rr[a].ord < rr[b].ord
  BY <1>7, <1>10, <1>14, <1>9, TermsFinite
<1>18. \A t \in Terms : rr[t].ord # d.row[t].ord => rr[t].ord \in 0..NumTerms
  BY <1>11, <1>14
<1> QED
  BY <1>14, <1>16, <1>17, <1>18 DEF o

LEMMA HistFacts ==
  ASSUME HistTypes
  PROVE  /\ db \in HistDb /\ mem \in HistMem
         /\ \A t \in Terms : /\ db.row[t] \in HistRow /\ db.rt[t] \in HistSts
                             /\ t \in Int /\ db.row[t].ord \in Int /\ db.row[t].at \in Int
                             /\ db.row[t].st \in HistSts /\ db.row[t].name \in HistNames
                             /\ mem.name[t] \in HistNames
         /\ db.ident \in Int /\ mem.ident \in Int /\ mem.idx \in SUBSET Terms
         /\ Loaded(db) \in Int
         /\ HasStarted \in SUBSET Terms
         /\ Cardinality(HasStarted) \in 0..NumTerms
<1>1. \A t \in Terms : db.row[t] \in HistRow /\ db.rt[t] \in HistSts /\ t \in Int
  BY TermsInt DEF HistTypes, HistDb
<1>2. db.ident \in Int /\ mem.ident \in Int /\ mem.idx \in SUBSET Terms
      /\ mem.name \in [Terms -> HistNames] /\ json.ident \in Int
  BY DEF HistTypes, HistDb, HistMem
<1>3. HasStarted \in SUBSET Terms
  BY DEF HasStarted
<1>4. \A t \in Terms : /\ db.row[t].ord \in Int /\ db.row[t].at \in Int
                       /\ db.row[t].st \in HistSts /\ db.row[t].name \in HistNames
  BY <1>1 DEF HistRow
<1> QED
  BY <1>1, <1>2, <1>3, <1>4, TermsFinite DEF HistTypes, Loaded

(* What a step that leaves the sessions' supervisors alone has to keep. *)
LEMMA OrdKept ==
  ASSUME OrdInv, NumTerms \in Nat, Cardinality(HasStarted) \in Nat, UNCHANGED supv,
         \A t \in Terms : \/ db'.row[t].ord = db.row[t].ord
                          \/ db'.row[t].ord \in 0..NumTerms
  PROVE  OrdInv'
<1>1. HasStarted' = HasStarted
  BY DEF HasStarted
<1> QED
  BY <1>1 DEF OrdInv

LEMMA NoMemType == NoMem \in HistMem /\ NoMem.idx = {} /\ NoMem.ident = 0
  BY DEF NoMem, HistMem, HistNames

LEMMA HistStarts ==
  ASSUME HistInv, StartLoads \/ StartOpens \/ StartRecovers
  PROVE  HistInv'
<1> USE TermsFinite
<1>0. /\ HistTypes /\ OrdInv /\ (\A t \in Terms : TermInv(t)) /\ OrderInv /\ IdentInv
  BY DEF HistInv
<1>1. CASE StartLoads
  <2>1. CASE Loads(db)
    <3> DEFINE id == IF Loaded(db) # 0 THEN Loaded(db) ELSE boots + 1
    <3>1. /\ stage' = "loaded" /\ db' = Migrated(db) /\ mem' = [NoMem EXCEPT !.ident = id]
          /\ stage = "off" /\ boots' = boots + 1
          /\ UNCHANGED <<json, supv, sfails, renames, given, promised, listedNames>>
      BY <1>1, <2>1 DEF StartLoads, Told
    <3>2. id \in Int /\ boots \in Nat
      BY <1>0, HistFacts DEF HistTypes
    <3>3. mem' \in HistMem /\ mem'.idx = {} /\ mem'.ident = id
      BY <3>1, <3>2, NoMemType DEF HistMem
    <3>4. /\ db' \in HistDb /\ db'.ident = db.ident /\ db'.ordered = db.ordered
          /\ db'.rt = db.rt /\ db'.row = db.row
      BY <3>1, <1>0, HistFacts, VersionedFacts DEF RowsOnly
    <3>5. HistTypes'
      BY <3>1, <3>2, <3>3, <3>4, <1>0 DEF HistTypes, HistStages
    <3>6. OrdInv'
      BY <3>1, <3>4, <1>0, HistFacts, OrdKept
    <3>7. \A t \in Terms : TermInv(t)'
      BY <3>1, <3>3, <3>4, <1>0 DEF TermInv
    <3>8. OrderInv'
      BY <3>1, <3>3, <3>4, <1>0 DEF OrderInv, Before
    <3>9. Loaded(db)' = Loaded(db)
      BY <3>1, <3>4 DEF Loaded, StateIsIn
    <3>10. id # 0 /\ (db.ident # 0 => id = db.ident)
      BY <3>2 DEF Loaded, StateIsIn
    <3>11. IdentInv'
      BY <3>1, <3>2, <3>3, <3>4, <3>9, <3>10, <1>0 DEF IdentInv
    <3> QED
      BY <3>5, <3>6, <3>7, <3>8, <3>11 DEF HistInv
  <2>2. CASE ~Loads(db)
    <3>1. /\ stage' = "refused" /\ UNCHANGED <<db, mem>> /\ stage = "off" /\ boots' = boots + 1
          /\ UNCHANGED <<json, supv, sfails, renames, given, promised, listedNames>>
      BY <1>1, <2>2 DEF StartLoads, Told
    <3>2. HistTypes'
      BY <3>1, <1>0 DEF HistTypes, HistStages
    <3>3. OrdInv'
      BY <3>1, <1>0, HistFacts, OrdKept
    <3>4. \A t \in Terms : TermInv(t)'
      BY <3>1, <1>0 DEF TermInv
    <3>5. OrderInv'
      BY <3>1, <1>0 DEF OrderInv, Before
    <3>6. IdentInv'
      BY <3>1, <1>0 DEF IdentInv
    <3> QED
      BY <3>2, <3>3, <3>4, <3>5, <3>6 DEF HistInv
  <2> QED
    BY <2>1, <2>2
<1>2. CASE StartOpens
  <2> DEFINE h == HistoryOpened(db)
  <2>1. /\ stage' = "opened" /\ db' = Saved(h, Loaded(db), {}) /\ stage = "loaded"
        /\ UNCHANGED <<json, boots, mem, supv, sfails, renames, given, promised, listedNames>>
    BY <1>2 DEF StartOpens, Told
  <2>2. /\ h \in HistDb /\ h.ident = db.ident /\ h.rt = db.rt /\ h.ordered
        /\ db.ordered => h.row = db.row
        /\ \A t \in Terms : /\ h.row[t].st = db.row[t].st /\ h.row[t].at = db.row[t].at
                            /\ h.row[t].name = db.row[t].name
                            /\ h.row[t].ord # db.row[t].ord => h.row[t].ord \in 0..NumTerms
    BY <1>0, HistFacts, OpenedFacts
  <2>3. Loaded(db) \in Int
    BY <1>0, HistFacts
  <2> HIDE DEF h
  <2>4. /\ db' \in HistDb /\ db'.ident = Loaded(db) /\ db'.ordered /\ db'.row = h.row
        /\ db'.rt = SavedRt(h, {})
    BY <2>1, <2>2, <2>3, SavedFacts
  <2>5. \A t \in Terms : db'.rt[t] = db.rt[t]
    BY <2>2, <2>4 DEF SavedRt
  <2>6. HistTypes'
    BY <2>1, <2>4, <1>0 DEF HistTypes, HistStages
  <2>7. OrdInv'
    BY <2>1, <2>2, <2>4, <1>0, HistFacts, OrdKept
  <2>8. \A t \in Terms : TermInv(t)'
    BY <2>1, <2>2, <2>4, <2>5, <1>0 DEF TermInv
  <2>9. OrderInv'
    BY <2>1, <2>2, <2>4, <1>0 DEF OrderInv, Before
  <2>10. db.ident # 0 => Loaded(db) = db.ident
    BY DEF Loaded, StateIsIn
  <2>11. IdentInv'
    BY <2>1, <2>4, <2>10, <1>0 DEF IdentInv
  <2> QED
    BY <2>6, <2>7, <2>8, <2>9, <2>11 DEF HistInv
<1>3. CASE StartRecovers
  <2>1. PICK back \in SUBSET {t \in Terms : db.rt[t] = "running" /\ supv[t] = "live"} :
          /\ mem' = [mem EXCEPT !.idx = back]
          /\ \E gone \in {G \in SUBSET (Terms \ back) :
                          \A t \in Terms \ back : supv[t] = "live" => t \in G} :
              /\ db' = [db EXCEPT !.rt = [t \in Terms |->
                          IF t \in gone THEN "none" ELSE @[t]]]
              /\ given' = [t \in Terms |-> IF t \in back THEN given[t] ELSE "none"]
              /\ promised' = OrderAmong(promised, back)
    BY <1>3 DEF StartRecovers
  <2>2. PICK gone \in SUBSET (Terms \ back) :
              /\ \A t \in Terms \ back : supv[t] = "live" => t \in gone
              /\ db' = [db EXCEPT !.rt = [t \in Terms |->
                          IF t \in gone THEN "none" ELSE @[t]]]
              /\ given' = [t \in Terms |-> IF t \in back THEN given[t] ELSE "none"]
              /\ promised' = OrderAmong(promised, back)
    BY <2>1
  <2>3. /\ stage' = "recovered" /\ stage = "opened"
        /\ UNCHANGED <<json, boots, supv, sfails, renames, listedNames>>
    BY <1>3 DEF StartRecovers
  <2> DEFINE rr == [t \in Terms |-> IF t \in gone THEN "none" ELSE db.rt[t]]
  <2>4. rr \in [Terms -> HistSts] /\ db' = [db EXCEPT !.rt = rr]
    BY <2>2, <1>0, HistFacts DEF HistSts
  <2>5. \A t \in Terms : rr[t] = IF t \in gone THEN "none" ELSE db.rt[t]
    OBVIOUS
  <2> HIDE DEF rr
  <2>6. /\ db' \in HistDb /\ db'.ident = db.ident /\ db'.ordered = db.ordered
        /\ db'.row = db.row /\ db'.rt = rr
    BY <2>4, <1>0, HistFacts, RuntimeUpdate DEF RuntimeOnly
  <2>7. mem' \in HistMem /\ mem'.idx = back /\ mem'.ident = mem.ident /\ mem'.name = mem.name
    BY <2>1, <1>0, HistFacts DEF HistMem
  <2>8. \A t \in Terms : given'[t] = IF t \in back THEN given[t] ELSE "none"
    BY <2>2
  <2>9. \A a, b : <<a, b>> \in promised' <=> <<a, b>> \in promised /\ a \in back /\ b \in back
    BY <2>2 DEF OrderAmong
  <2>10. HistTypes'
    <3>1. given' \in [Terms -> HistNames]
      BY <2>2, <1>0 DEF HistTypes, HistNames
    <3>2. promised' \in SUBSET (Terms \X Terms)
      BY <2>2, <1>0 DEF HistTypes, OrderAmong
    <3> QED
      BY <3>1, <3>2, <2>3, <2>6, <2>7, <1>0 DEF HistTypes, HistStages
  <2>11. OrdInv'
    BY <2>3, <2>6, <1>0, HistFacts, OrdKept
  <2>12. \A t \in Terms : TermInv(t)'
    BY <2>2, <2>3, <2>5, <2>6, <2>7, <2>8, <1>0 DEF TermInv
  <2>13. OrderInv'
    <3>1. promised' # {} => promised # {}
      BY <2>2 DEF OrderAmong
    <3> QED
      BY <3>1, <2>3, <2>6, <2>7, <2>9, <1>0 DEF OrderInv, Before
  <2>14. IdentInv'
    BY <2>3, <2>6, <2>7, <1>0 DEF IdentInv
  <2> QED
    BY <2>10, <2>11, <2>12, <2>13, <2>14 DEF HistInv
<1> QED
  BY <1>1, <1>2, <1>3

(* e is d but for one row, and that row keeps its order and its age. *)
OneRow(e, d, t) ==
  /\ RowsOnly(e, d)
  /\ \A u \in Terms \ {t} : e.row[u] = d.row[u]
  /\ e.row[t].ord = d.row[t].ord /\ e.row[t].at = d.row[t].at

LEMMA OneRowFacts ==
  ASSUME NEW d \in HistDb, NEW t \in Rows(d)
  PROVE  /\ OneRow(RowClosed(d, t), d, t) /\ RowClosed(d, t).row[t].st = "closed"
         /\ RowClosed(d, t).row[t].name = d.row[t].name
         /\ d.row[t].name # "none" =>
              \A n : /\ OneRow(RowRestored(d, t, n), d, t)
                     /\ RowRestored(d, t, n).row[t].st = "running"
                     /\ RowRestored(d, t, n).row[t].name = d.row[t].name
         /\ \A n \in HistNames :
              /\ OneRow(RowRenamed(d, t, n), d, t)
              /\ RowRenamed(d, t, n).row[t].st = d.row[t].st
              /\ RowRenamed(d, t, n).row[t].name = n
<1>1. t \in Terms /\ d.row \in [Terms -> HistRow] /\ d.row[t] \in HistRow
  BY DEF Rows, HistDb
<1>2. /\ OneRow(RowClosed(d, t), d, t) /\ RowClosed(d, t).row[t].st = "closed"
      /\ RowClosed(d, t).row[t].name = d.row[t].name
  <2>1. /\ RowsOnly(RowClosed(d, t), d)
        /\ RowClosed(d, t).row = [d.row EXCEPT ![t] = [@ EXCEPT !.st = "closed"]]
    BY ClosedRow
  <2> QED
    BY <1>1, <2>1 DEF OneRow, HistRow
<1>3. ASSUME d.row[t].name # "none", NEW n
      PROVE  /\ OneRow(RowRestored(d, t, n), d, t)
             /\ RowRestored(d, t, n).row[t].st = "running"
             /\ RowRestored(d, t, n).row[t].name = d.row[t].name
  <2>1. /\ RowsOnly(RowRestored(d, t, n), d)
        /\ RowRestored(d, t, n).row = [d.row EXCEPT ![t] = [@ EXCEPT !.st = "running"]]
    BY <1>3, RestoredRow
  <2> QED
    BY <1>1, <2>1 DEF OneRow, HistRow
<1>4. ASSUME NEW n \in HistNames
      PROVE  /\ OneRow(RowRenamed(d, t, n), d, t)
             /\ RowRenamed(d, t, n).row[t].st = d.row[t].st
             /\ RowRenamed(d, t, n).row[t].name = n
  <2>1. /\ RowsOnly(RowRenamed(d, t, n), d)
        /\ RowRenamed(d, t, n).row = [d.row EXCEPT ![t] = [@ EXCEPT !.name = n]]
    BY RenamedRow
  <2> QED
    BY <1>1, <2>1 DEF OneRow, HistRow
<1> QED
  BY <1>2, <1>3, <1>4

LEMMA HistRestores ==
  ASSUME HistInv, NEW t \in Terms, ClosesMissing(t) \/ RestoresOne(t)
  PROVE  HistInv'
<1> USE TermsFinite
<1>0. /\ HistTypes /\ OrdInv /\ (\A u \in Terms : TermInv(u)) /\ OrderInv /\ IdentInv
  BY DEF HistInv
<1>1. CASE ClosesMissing(t)
  <2>1. /\ stage = "recovered" /\ t \in Known(db) /\ t \notin mem.idx /\ db' = RowClosed(db, t)
        /\ UNCHANGED <<json, boots, stage, mem, supv, sfails, renames, given, promised, listedNames>>
    BY <1>1 DEF ClosesMissing, Told
  <2>2. t \in Rows(db)
    BY <2>1 DEF Known, Rows
  <2>3. OneRow(db', db, t) /\ db'.row[t].st = "closed" /\ db'.row[t].name = db.row[t].name
    BY <2>1, <2>2, <1>0, HistFacts, OneRowFacts
  <2>4. /\ db' \in HistDb /\ db'.ident = db.ident /\ db'.ordered = db.ordered /\ db'.rt = db.rt
        /\ \A u \in Terms \ {t} : db'.row[u] = db.row[u]
        /\ db'.row[t].ord = db.row[t].ord /\ db'.row[t].at = db.row[t].at
    BY <2>3 DEF OneRow, RowsOnly
  <2>5. HistTypes'
    BY <2>1, <2>4, <1>0 DEF HistTypes
  <2>6. OrdInv'
    BY <2>1, <2>4, <1>0, HistFacts, OrdKept
  <2>7. given[t] = "none" /\ ~(db.rt[t] = "running" /\ supv[t] = "live")
    BY <2>1, <1>0 DEF TermInv
  <2>8. \A u \in Terms : TermInv(u)'
    BY <2>1, <2>3, <2>4, <2>7, <1>0 DEF TermInv, Known
  <2>9. OrderInv'
    BY <2>1, <2>4, <1>0 DEF OrderInv, Before
  <2>10. IdentInv'
    BY <2>1, <2>4, <1>0 DEF IdentInv
  <2> QED
    BY <2>5, <2>6, <2>8, <2>9, <2>10 DEF HistInv
<1>2. CASE RestoresOne(t)
  <2>1. /\ stage = "recovered" /\ t \in mem.idx
        /\ mem' = [mem EXCEPT !.name[t] = RestoredName(t)]
        /\ db' = RowRestored(db, t, RestoredName(t)) \/ UNCHANGED db
        /\ UNCHANGED <<json, boots, stage, supv, renames, given, promised, listedNames>>
    BY <1>2 DEF RestoresOne, Told, StoreFails
  <2>2. /\ db.row[t].st = "running" /\ db.row[t].name # "none" /\ t \in Rows(db)
        /\ RestoredName(t) = db.row[t].name
    BY <2>1, <1>0 DEF TermInv, Rows, RestoredName, CoalesceName
  <2>3. mem' \in HistMem /\ mem'.idx = mem.idx /\ mem'.ident = mem.ident
    BY <2>1, <2>2, <1>0, HistFacts DEF HistMem
  <2>4. /\ db' \in HistDb /\ db'.ident = db.ident /\ db'.ordered = db.ordered /\ db'.rt = db.rt
        /\ \A u \in Terms \ {t} : db'.row[u] = db.row[u]
        /\ db'.row[t].ord = db.row[t].ord /\ db'.row[t].at = db.row[t].at
        /\ db'.row[t].st = "running" /\ db'.row[t].name = db.row[t].name
    <3>1. CASE UNCHANGED db
      BY <3>1, <2>2, <1>0, HistFacts
    <3>2. CASE db' = RowRestored(db, t, RestoredName(t))
      BY <3>2, <2>2, <1>0, HistFacts, OneRowFacts DEF OneRow, RowsOnly
    <3> QED
      BY <2>1, <3>1, <3>2
  <2>5. HistTypes'
    BY <2>1, <2>3, <2>4, <1>0 DEF HistTypes
  <2>6. OrdInv'
    BY <2>1, <2>4, <1>0, HistFacts, OrdKept
  <2>7. \A u \in Terms : TermInv(u)'
    BY <2>1, <2>2, <2>3, <2>4, <1>0 DEF TermInv
  <2>8. OrderInv'
    BY <2>1, <2>2, <2>3, <2>4, <1>0 DEF OrderInv, Before
  <2>9. IdentInv'
    BY <2>1, <2>3, <2>4, <1>0 DEF IdentInv
  <2> QED
    BY <2>5, <2>6, <2>7, <2>8, <2>9 DEF HistInv
<1> QED
  BY <1>1, <1>2

LEMMA HistServes ==
  ASSUME HistInv, StartPersists \/ StartPrunes \/ DaemonKilled \/ SavesSnapshot
  PROVE  HistInv'
<1> USE TermsFinite
<1>0. /\ HistTypes /\ OrdInv /\ (\A u \in Terms : TermInv(u)) /\ OrderInv /\ IdentInv
  BY DEF HistInv
<1>f. /\ db \in HistDb /\ mem \in HistMem /\ mem.ident \in Int /\ mem.idx \in SUBSET Terms
      /\ \A t \in Terms : db.rt[t] \in HistSts
  BY <1>0, HistFacts
<1>1. ASSUME NEW run \in SUBSET mem.idx, db' = Saved(db, mem.ident, run),
             \/ stage = "serving" /\ stage' = stage
             \/ /\ stage = "recovered" /\ stage' = "restored"
                /\ \A t \in mem.idx : mem.name[t] # "none",
             UNCHANGED <<json, boots, mem, supv, given, promised, listedNames>>
      PROVE  HistInv'
  <2>1. /\ db' \in HistDb /\ db'.ident = mem.ident /\ db'.ordered = db.ordered
        /\ db'.row = db.row /\ db'.rt = SavedRt(db, run)
    BY <1>1, <1>f, SavedFacts
  <2>2. \A t \in Terms : db'.rt[t] = IF t \in run /\ db.rt[t] # "closed" THEN "running" ELSE db.rt[t]
    BY <2>1 DEF SavedRt
  <2>3. HistTypes'
    BY <1>1, <2>1, <1>0 DEF HistTypes, HistStages
  <2>4. OrdInv'
    BY <1>1, <2>1, <1>0, HistFacts, OrdKept
  <2>5. \A u \in Terms : TermInv(u)'
    BY <1>1, <2>1, <2>2, <1>0 DEF TermInv
  <2>6. OrderInv'
    BY <1>1, <2>1, <1>0 DEF OrderInv, Before
  <2>7. IdentInv'
    BY <1>1, <2>1, <1>0 DEF IdentInv
  <2> QED
    BY <2>3, <2>4, <2>5, <2>6, <2>7 DEF HistInv
<1>2. ASSUME stage' = "off", mem' = NoMem, stage \notin {"off", "refused"},
             UNCHANGED <<db, json, boots, supv, given, promised, listedNames>>
      PROVE  HistInv'
  <2>1. HistTypes'
    BY <1>2, <1>0, NoMemType DEF HistTypes, HistStages
  <2>2. OrdInv'
    BY <1>2, <1>0, HistFacts, OrdKept
  <2>3. \A u \in Terms : TermInv(u)'
    BY <1>2, <1>0, NoMemType DEF TermInv
  <2>4. OrderInv'
    BY <1>2, <1>0 DEF OrderInv, Before
  <2>5. IdentInv'
    BY <1>2, <1>0 DEF IdentInv
  <2> QED
    BY <2>1, <2>2, <2>3, <2>4, <2>5 DEF HistInv
<1>3. CASE StartPersists
  <2>1. CASE stage' = "restored" /\ db' = Saved(db, mem.ident, mem.idx) /\ UNCHANGED <<mem, sfails>>
    BY <2>1, <1>1, <1>3 DEF StartPersists, Told
  <2>2. CASE stage' = "off" /\ mem' = NoMem /\ UNCHANGED db
    BY <2>2, <1>2, <1>3 DEF StartPersists, Told
  <2> QED
    BY <1>3, <2>1, <2>2 DEF StartPersists
<1>4. CASE StartPrunes
  <2>1. /\ stage = "restored" /\ stage' = "serving"
        /\ listedNames' = listedNames \cup {mem.ident}
        /\ UNCHANGED <<json, boots, mem, supv, renames, given, promised>>
        /\ db' \in {db, RowsPruned(db), RuntimePruned(RowsPruned(db))}
    BY <1>4 DEF StartPrunes
  <2> DEFINE e == RowsPruned(db)
  <2>2. /\ RowsOnly(e, db)
        /\ \A u \in Terms : e.row[u] = IF db.row[u].st = "closed" THEN NoRow ELSE db.row[u]
    BY <1>f, PrunedRows
  <2>3. e \in HistDb
    BY <2>2 DEF RowsOnly
  <2>4. /\ RuntimeOnly(RuntimePruned(e), e)
        /\ \A u \in Terms : RuntimePruned(e).rt[u] = IF e.rt[u] = "closed" THEN "none" ELSE e.rt[u]
    BY <2>3, RuntimeFacts
  <2>5. /\ db' \in HistDb /\ db'.ident = db.ident /\ db'.ordered = db.ordered
        /\ \A u \in Terms : \/ db'.row[u] = db.row[u]
                            \/ db.row[u].st = "closed" /\ db'.row[u] = NoRow
        /\ \A u \in Terms : db'.rt[u] = db.rt[u] \/ (db.rt[u] = "closed" /\ db'.rt[u] = "none")
    <3> HIDE DEF e
    <3>1. CASE db' = db
      BY <3>1, <1>f
    <3>2. CASE db' = e
      BY <3>2, <2>2 DEF RowsOnly
    <3>3. CASE db' = RuntimePruned(e)
      BY <3>3, <2>2, <2>4 DEF RowsOnly, RuntimeOnly
    <3> QED
      BY <2>1, <3>1, <3>2, <3>3 DEF e
  <2> HIDE DEF e
  <2>6. HistTypes'
    BY <2>1, <2>5, <1>0, <1>f DEF HistTypes, HistStages
  <2>7. OrdInv'
    <3>1. \A u \in Terms : \/ db'.row[u].ord = db.row[u].ord
                           \/ db'.row[u].ord \in 0..NumTerms
      BY <2>5, NoRowType
    <3> QED
      BY <3>1, <2>1, <1>0, HistFacts, OrdKept
  <2>8. \A u \in Terms : TermInv(u)'
    BY <2>1, <2>5, <1>0, NoRowType DEF TermInv
  <2>9. OrderInv'
    BY <2>1, <2>5, <1>0 DEF OrderInv, Before
  <2>10. IdentInv'
    BY <2>1, <2>5, <1>0 DEF IdentInv
  <2> QED
    BY <2>6, <2>7, <2>8, <2>9, <2>10 DEF HistInv
<1>5. CASE DaemonKilled
  BY <1>5, <1>2 DEF DaemonKilled, Told
<1>6. CASE SavesSnapshot
  <2>1. PICK run \in SUBSET mem.idx : db' = Saved(db, mem.ident, run)
    BY <1>6 DEF SavesSnapshot
  <2> QED
    BY <1>6, <2>1, <1>1 DEF SavesSnapshot, Told
<1> QED
  BY <1>3, <1>4, <1>5, <1>6

LEMMA HistEnds ==
  ASSUME HistInv, NEW t \in Terms, TerminalExits(t) \/ FinalizesClosed(t)
  PROVE  HistInv'
<1> USE TermsFinite
<1>0. /\ HistTypes /\ OrdInv /\ (\A u \in Terms : TermInv(u)) /\ OrderInv /\ IdentInv
  BY DEF HistInv
<1>1. CASE TerminalExits(t)
  <2>1. /\ supv[t] = "live" /\ supv' = [supv EXCEPT ![t] = "dead"]
        /\ UNCHANGED <<db, json, boots, stage, mem, given, promised, listedNames>>
    BY <1>1 DEF TerminalExits, Told
  <2>2. /\ supv' \in [Terms -> {"never", "live", "dead"}]
        /\ \A u \in Terms : supv'[u] = IF u = t THEN "dead" ELSE supv[u]
    BY <2>1, <1>0 DEF HistTypes
  <2>3. HistTypes'
    BY <2>1, <2>2, <1>0 DEF HistTypes
  <2>4. HasStarted' = HasStarted
    BY <2>1, <2>2 DEF HasStarted
  <2>5. OrdInv'
    BY <2>1, <2>4, <1>0 DEF OrdInv
  <2>6. \A u \in Terms : TermInv(u)'
    BY <2>1, <2>2, <1>0 DEF TermInv
  <2>7. OrderInv'
    BY <2>1, <1>0 DEF OrderInv, Before
  <2>8. IdentInv'
    BY <2>1, <1>0 DEF IdentInv, Loaded, StateIsIn
  <2> QED
    BY <2>3, <2>5, <2>6, <2>7, <2>8 DEF HistInv
<1>2. CASE FinalizesClosed(t)
  <2>1. /\ stage \in {"opened", "recovered", "restored", "serving"}
        /\ supv[t] = "dead" /\ db' = [db EXCEPT !.rt[t] = "none"]
        /\ UNCHANGED <<json, boots, stage, mem, supv, given, promised, listedNames>>
    BY <1>2 DEF FinalizesClosed, Told
  <2>2. /\ db' \in HistDb /\ db'.ident = db.ident /\ db'.ordered = db.ordered
        /\ db'.row = db.row /\ db'.rt = [db.rt EXCEPT ![t] = "none"]
    BY <2>1, <1>0, HistFacts, RuntimeFacts DEF RuntimeOnly
  <2>3. \A u \in Terms \ {t} : db'.rt[u] = db.rt[u]
    BY <2>2
  <2>4. HistTypes'
    BY <2>1, <2>2, <1>0 DEF HistTypes
  <2>5. OrdInv'
    BY <2>1, <2>2, <1>0, HistFacts, OrdKept
  <2>6. \A u \in Terms : TermInv(u)'
    BY <2>1, <2>2, <2>3, <1>0 DEF TermInv
  <2>7. OrderInv'
    BY <2>1, <2>2, <1>0 DEF OrderInv, Before
  <2>8. IdentInv'
    BY <2>1, <2>2, <1>0 DEF IdentInv
  <2> QED
    BY <2>4, <2>5, <2>6, <2>7, <2>8 DEF HistInv
<1> QED
  BY <1>1, <1>2

(* A session that is started widens the bound of the orders by one. *)
LEMMA OrdWidens ==
  ASSUME HistTypes, OrdInv, NEW t \in Terms, supv[t] = "never",
         NEW v \in {"live", "dead"}, supv' = [supv EXCEPT ![t] = v],
         \A u \in Terms \ {t} : db'.row[u] = db.row[u],
         db'.row[t].ord \in (-(Cardinality(HasStarted) + 1))..NumTerms
  PROVE  /\ OrdInv'
         /\ supv' \in [Terms -> {"never", "live", "dead"}]
         /\ \A u \in Terms : supv'[u] = IF u = t THEN v ELSE supv[u]
<1>1. /\ supv' \in [Terms -> {"never", "live", "dead"}]
      /\ \A u \in Terms : supv'[u] = IF u = t THEN v ELSE supv[u]
  BY DEF HistTypes
<1>2. HasStarted' = HasStarted \cup {t} /\ t \notin HasStarted
  BY <1>1 DEF HasStarted
<1>3. IsFiniteSet(HasStarted) /\ Cardinality(HasStarted) \in Nat
  BY TermsFinite, HistFacts
<1>4. Cardinality(HasStarted)' = Cardinality(HasStarted) + 1
  BY <1>2, <1>3, FS_AddElement
<1>5. \A u \in Terms : db'.row[u].ord \in (-(Cardinality(HasStarted) + 1))..NumTerms
  <2> SUFFICES ASSUME NEW u \in Terms, u # t
               PROVE  db'.row[u].ord \in (-(Cardinality(HasStarted) + 1))..NumTerms
    OBVIOUS
  <2>1. db'.row[u].ord \in (-Cardinality(HasStarted))..NumTerms
    BY DEF OrdInv
  <2> QED
    BY <2>1, <1>3, TermsFinite
<1> QED
  BY <1>1, <1>4, <1>5 DEF OrdInv

LEMMA HistCreates ==
  ASSUME HistInv, NEW t \in Terms, CreatesTerm(t) \/ CreateFails(t)
  PROVE  HistInv'
<1> USE TermsFinite
<1>0. /\ HistTypes /\ OrdInv /\ (\A u \in Terms : TermInv(u)) /\ OrderInv /\ IdentInv
  BY DEF HistInv
<1> DEFINE c == Cardinality(HasStarted)
           e == RowCreated(db, t)
           r == MadeRow(db, t)
<1>1. stage = "serving" /\ supv[t] = "never"
  BY DEF CreatesTerm, CreateFails
<1>2. /\ db.row[t].st = "none" /\ db.rt[t] = "none" /\ given[t] = "none" /\ t \notin mem.idx
      /\ \A u \in Terms : <<t, u>> \notin promised /\ <<u, t>> \notin promised
  BY <1>0, <1>1 DEF TermInv, OrderInv
<1>3. c \in Nat /\ c \in 0..NumTerms
  BY <1>0, HistFacts
<1>4. /\ RowsOnly(e, db)
      /\ e.row = [db.row EXCEPT ![t] = r]
      /\ r \in HistRow
      /\ r.st = "running" /\ r.name = "auto" /\ r.at = t
      /\ r.ord \in (-(c + 1))..NumTerms
      /\ \A u \in Rows(db) : r.ord < db.row[u].ord
  BY <1>0, <1>3, HistFacts, CreatedRow DEF OrdInv
<1>5. db \in HistDb /\ db.row \in [Terms -> HistRow]
  BY <1>0, HistFacts DEF HistDb
<1> HIDE DEF c, e, r
<1>6. /\ e \in HistDb /\ e.ident = db.ident /\ e.ordered = db.ordered /\ e.rt = db.rt
      /\ e.row[t] = r /\ \A u \in Terms \ {t} : e.row[u] = db.row[u]
  BY <1>4, <1>5 DEF RowsOnly
<1>7. CASE CreatesTerm(t)
  <2>1. /\ supv' = [supv EXCEPT ![t] = "live"]
        /\ mem' = [mem EXCEPT !.idx = @ \cup {t}, !.name[t] = "auto"]
        /\ db' = [e EXCEPT !.rt[t] = "running"]
        /\ given' = [given EXCEPT ![t] = "auto"]
        /\ promised' = OnTop(t, promised)
        /\ UNCHANGED <<json, boots, stage, sfails, renames, listedNames>>
    BY <1>7 DEF CreatesTerm, e
  <2>2. /\ RuntimeOnly(db', e) /\ db'.rt = [e.rt EXCEPT ![t] = "running"]
    BY <2>1, <1>6, RuntimeFacts
  <2>3. /\ db' \in HistDb /\ db'.ident = db.ident /\ db'.ordered = db.ordered
        /\ db'.row[t] = r /\ \A u \in Terms \ {t} : db'.row[u] = db.row[u]
        /\ db'.rt[t] = "running" /\ \A u \in Terms \ {t} : db'.rt[u] = db.rt[u]
    BY <2>2, <1>6, <1>5 DEF RuntimeOnly, HistDb
  <2>4. /\ mem' \in HistMem /\ mem'.ident = mem.ident /\ mem'.idx = mem.idx \cup {t}
        /\ mem'.name[t] = "auto" /\ \A u \in Terms \ {t} : mem'.name[u] = mem.name[u]
    BY <2>1, <1>0, HistFacts DEF HistMem, HistNames
  <2>5. /\ given' \in [Terms -> HistNames]
        /\ given'[t] = "auto" /\ \A u \in Terms \ {t} : given'[u] = given[u]
    BY <2>1, <1>0 DEF HistTypes, HistNames
  <2>6. /\ promised' \in SUBSET (Terms \X Terms)
        /\ \A a, b : <<a, b>> \in promised' <=>
             \/ <<a, b>> \in promised
             \/ a = t /\ (b = t \/ (b \in Terms /\ <<b, b>> \in promised))
    BY <2>1, <1>0 DEF OnTop, Members, HistTypes
  <2>7. /\ OrdInv'
        /\ supv' \in [Terms -> {"never", "live", "dead"}]
        /\ \A u \in Terms : supv'[u] = IF u = t THEN "live" ELSE supv[u]
    BY <2>1, <2>3, <1>0, <1>1, <1>4, OrdWidens DEF c
  <2>8. HistTypes'
    BY <2>1, <2>3, <2>4, <2>5, <2>6, <2>7, <1>0 DEF HistTypes
  <2>9. \A u \in Terms : TermInv(u)'
    BY <2>1, <2>3, <2>4, <2>5, <2>7, <1>0, <1>1, <1>2, <1>4 DEF TermInv
  <2>10. OrderInv'
    <3>1. db'.ordered
      BY <2>3, <1>0, <1>1 DEF OrderInv
    <3>2. ASSUME NEW a \in Terms, NEW b \in Terms, <<a, b>> \in promised'
          PROVE  /\ db'.row[a].st = "running" /\ db'.row[b].st = "running"
                 /\ <<a, a>> \in promised' /\ <<b, b>> \in promised'
                 /\ a # b => Before(db', a, b)
                 /\ stage' = "recovered" => a \in mem'.idx /\ b \in mem'.idx
      <4>1. CASE <<a, b>> \in promised
        <5>1. a # t /\ b # t
          BY <4>1, <1>2
        <5> QED
          BY <4>1, <5>1, <2>1, <2>3, <2>6, <1>0, <1>1 DEF OrderInv, Before
      <4>2. CASE a = t /\ b = t
        BY <4>2, <2>1, <2>3, <2>6, <1>1, <1>4
      <4>3. CASE a = t /\ b # t /\ <<b, b>> \in promised
        <5>1. db.row[b].st = "running"
          BY <4>3, <1>0 DEF OrderInv
        <5>2. b \in Rows(db)
          BY <5>1 DEF Rows
        <5>3. Before(db', a, b)
          BY <4>3, <5>2, <2>3, <1>4 DEF Before
        <5> QED
          BY <4>3, <5>1, <5>3, <2>1, <2>3, <2>6, <1>1, <1>4
      <4> QED
        BY <3>2, <4>1, <4>2, <4>3, <2>6
    <3> QED
      BY <3>1, <3>2 DEF OrderInv
  <2>11. IdentInv'
    BY <2>1, <2>3, <2>4, <1>0, <1>1 DEF IdentInv
  <2> QED
    BY <2>7, <2>8, <2>9, <2>10, <2>11 DEF HistInv
<1>8. CASE CreateFails(t)
  <2>1. /\ supv' = [supv EXCEPT ![t] = "dead"]
        /\ db' \in {db, e, RowClosed(e, t), RowPruned(RowClosed(e, t), t)}
        /\ UNCHANGED <<json, boots, stage, mem, renames, given, promised, listedNames>>
    BY <1>8 DEF CreateFails, Told, e
  <2>2. t \in Rows(e)
    BY <1>4, <1>6 DEF Rows
  <2>3. /\ OneRow(RowClosed(e, t), e, t) /\ RowClosed(e, t).row[t].st = "closed"
        /\ RowClosed(e, t).row[t].name = e.row[t].name
    BY <2>2, <1>6, OneRowFacts
  <2> DEFINE f == RowClosed(e, t)
             g == RowPruned(f, t)
  <2>4. /\ f \in HistDb /\ f.ident = db.ident /\ f.ordered = db.ordered /\ f.rt = db.rt
        /\ f.row[t].st = "closed" /\ f.row[t].ord = r.ord /\ f.row[t].at = t
        /\ f.row[t].name = "auto" /\ \A u \in Terms \ {t} : f.row[u] = db.row[u]
    BY <2>3, <1>4, <1>6 DEF OneRow, RowsOnly
  <2> HIDE DEF f
  <2>5. /\ RowsOnly(g, f) /\ g.row = [f.row EXCEPT ![t] = NoRow]
    BY <2>4, PrunedRow
  <2>6. /\ g \in HistDb /\ g.ident = db.ident /\ g.ordered = db.ordered /\ g.rt = db.rt
        /\ g.row[t] = NoRow /\ \A u \in Terms \ {t} : g.row[u] = db.row[u]
    BY <2>4, <2>5 DEF RowsOnly, HistDb
  <2> HIDE DEF g
  <2>7. /\ db' \in HistDb /\ db'.ident = db.ident /\ db'.ordered = db.ordered /\ db'.rt = db.rt
        /\ \A u \in Terms \ {t} : db'.row[u] = db.row[u]
        /\ db'.row[t].st # "none" => db'.row[t].at = t /\ db'.row[t].name # "none"
        /\ db'.row[t].ord \in (-(c + 1))..NumTerms
    <3>1. CASE db' = db
      <4>1. db.row[t].ord \in (-c)..NumTerms
        BY <1>0 DEF OrdInv, c
      <4>2. db.row[t].ord \in (-(c + 1))..NumTerms
        BY <4>1, <1>3
      <4> QED
        BY <3>1, <4>2, <1>2, <1>5
    <3>2. CASE db' = e
      BY <3>2, <1>4, <1>6
    <3>3. CASE db' = f
      BY <3>3, <2>4, <1>4
    <3>4. CASE db' = g
      BY <3>4, <2>6, <1>3, NoRowType
    <3> QED
      BY <2>1, <3>1, <3>2, <3>3, <3>4 DEF f, g
  <2>8. /\ OrdInv'
        /\ supv' \in [Terms -> {"never", "live", "dead"}]
        /\ \A u \in Terms : supv'[u] = IF u = t THEN "dead" ELSE supv[u]
    BY <2>1, <2>7, <1>0, <1>1, OrdWidens DEF c
  <2>9. HistTypes'
    BY <2>1, <2>7, <2>8, <1>0 DEF HistTypes
  <2>10. \A u \in Terms : TermInv(u)'
    BY <2>1, <2>7, <2>8, <1>0, <1>1, <1>2 DEF TermInv
  <2>11. OrderInv'
    BY <2>1, <2>7, <1>0, <1>1, <1>2 DEF OrderInv, Before
  <2>12. IdentInv'
    BY <2>1, <2>7, <1>0, <1>1 DEF IdentInv
  <2> QED
    BY <2>8, <2>9, <2>10, <2>11, <2>12 DEF HistInv
<1> QED
  BY <1>7, <1>8

LEMMA UnindexedFacts ==
  ASSUME NEW m \in HistMem, NEW S \in SUBSET Terms
  PROVE  /\ Unindexed(m, S) \in HistMem /\ Unindexed(m, S).ident = m.ident
         /\ Unindexed(m, S).idx = m.idx \ S
         /\ \A u \in Terms : Unindexed(m, S).name[u] = IF u \in S THEN "none" ELSE m.name[u]
<1> DEFINE nn == [t \in Terms |-> IF t \in S THEN "none" ELSE m.name[t]]
<1>1. nn \in [Terms -> HistNames]
  BY DEF HistMem, HistNames
<1>2. Unindexed(m, S) = [m EXCEPT !.idx = m.idx \ S, !.name = nn]
  BY DEF Unindexed
<1>3. \A u \in Terms : nn[u] = IF u \in S THEN "none" ELSE m.name[u]
  OBVIOUS
<1> HIDE DEF nn
<1>4. [m EXCEPT !.idx = m.idx \ S, !.name = nn] \in HistMem
  BY <1>1 DEF HistMem
<1> QED
  BY <1>2, <1>3, <1>4 DEF HistMem

(* A step of a daemon that serves and that leaves the sessions of S. *)
LEMMA HistLeaves ==
  ASSUME HistInv, NEW S \in SUBSET Terms, stage = "serving",
         mem' = Unindexed(mem, S), ForgetsPromise(S),
         \A t \in S : db.row[t].st # "none" /\ ~(db'.rt[t] = "running" /\ supv'[t] = "live"),
         supv' \in [Terms -> {"never", "live", "dead"}],
         \A t \in Terms : (supv'[t] = "never" <=> supv[t] = "never")
                          /\ (t \notin S => supv'[t] = supv[t]),
         db' \in HistDb, db'.ident = db.ident, db'.ordered = db.ordered,
         \A t \in Terms \ S : db'.row[t] = db.row[t] /\ db'.rt[t] = db.rt[t],
         \A t \in S : \/ db'.row[t] = NoRow
                      \/ /\ db'.row[t].ord = db.row[t].ord /\ db'.row[t].at = db.row[t].at
                         /\ db'.row[t].name = db.row[t].name,
         UNCHANGED <<json, boots, stage, listedNames>>
  PROVE  HistInv'
<1> USE TermsFinite
<1>0. /\ HistTypes /\ OrdInv /\ (\A u \in Terms : TermInv(u)) /\ OrderInv /\ IdentInv
  BY DEF HistInv
<1>1. /\ mem' \in HistMem /\ mem'.ident = mem.ident /\ mem'.idx = mem.idx \ S
      /\ \A u \in Terms : mem'.name[u] = IF u \in S THEN "none" ELSE mem.name[u]
  BY <1>0, HistFacts, UnindexedFacts
<1>2. /\ given' \in [Terms -> HistNames]
      /\ \A u \in Terms : given'[u] = IF u \in S THEN "none" ELSE given[u]
  BY <1>0 DEF ForgetsPromise, HistTypes, HistNames
<1>3. /\ promised' \in SUBSET (Terms \X Terms) /\ promised' \subseteq promised
      /\ \A a, b \in Terms : <<a, b>> \in promised' <=>
           <<a, b>> \in promised /\ a \notin S /\ b \notin S
  BY <1>0 DEF ForgetsPromise, OrderAmong, HistTypes
<1>4. HistTypes'
  BY <1>0, <1>1, <1>2, <1>3 DEF HistTypes
<1>5. OrdInv'
  <2>1. HasStarted' = HasStarted
    BY DEF HasStarted
  <2>2. Cardinality(HasStarted) \in Nat
    BY <1>0, HistFacts
  <2>3. \A u \in Terms : db'.row[u].ord = db.row[u].ord \/ db'.row[u].ord = 0
    BY NoRowType
  <2> QED
    BY <2>1, <2>2, <2>3, <1>0 DEF OrdInv
<1>6. \A u \in Terms : TermInv(u)'
  <2> SUFFICES ASSUME NEW u \in Terms PROVE TermInv(u)'
    OBVIOUS
  <2>1. CASE u \in S
    BY <2>1, <1>0, <1>1, <1>2, NoRowType DEF TermInv
  <2>2. CASE u \notin S
    BY <2>2, <1>0, <1>1, <1>2 DEF TermInv
  <2> QED
    BY <2>1, <2>2
<1>7. OrderInv'
  BY <1>0, <1>1, <1>3 DEF OrderInv, Before
<1>8. IdentInv'
  BY <1>0, <1>1 DEF IdentInv
<1> QED
  BY <1>4, <1>5, <1>6, <1>7, <1>8 DEF HistInv

LEMMA HistCloses ==
  ASSUME HistInv, NEW t \in Terms, ClosesTerm(t)
  PROVE  HistInv'
<1>0. HistTypes /\ \A u \in Terms : TermInv(u)
  BY DEF HistInv
<1> DEFINE d == RuntimeClosed(db, t)
           f == RowClosed(d, t)
           g == RowPruned(f, t)
<1>1. /\ stage = "serving" /\ t \in mem.idx
      /\ supv' = [supv EXCEPT ![t] = "dead"] /\ mem' = Unindexed(mem, {t})
      /\ db' \in {d, f, g} /\ ForgetsPromise({t})
      /\ UNCHANGED <<json, boots, stage, renames, listedNames>>
  BY DEF ClosesTerm
<1>2. db.row[t].st = "running" /\ supv[t] # "never"
  BY <1>0, <1>1 DEF TermInv
<1>3. /\ supv' \in [Terms -> {"never", "live", "dead"}]
      /\ \A u \in Terms : supv'[u] = IF u = t THEN "dead" ELSE supv[u]
  BY <1>0, <1>1 DEF HistTypes
<1>4. db \in HistDb /\ db.rt \in [Terms -> HistSts]
  BY <1>0, HistFacts DEF HistDb
<1>5. RuntimeOnly(d, db) /\ d.rt = [db.rt EXCEPT ![t] = "closed"]
  BY <1>4, RuntimeFacts
<1>6. /\ d \in HistDb /\ d.ident = db.ident /\ d.ordered = db.ordered /\ d.row = db.row
      /\ d.rt[t] = "closed" /\ \A u \in Terms \ {t} : d.rt[u] = db.rt[u]
  BY <1>4, <1>5 DEF RuntimeOnly
<1> HIDE DEF d
<1>7. t \in Rows(d)
  BY <1>2, <1>6 DEF Rows
<1>8. OneRow(f, d, t) /\ f.row[t].st = "closed" /\ f.row[t].name = d.row[t].name
  BY <1>6, <1>7, OneRowFacts
<1> HIDE DEF f
<1>9. /\ f \in HistDb /\ f.ident = db.ident /\ f.ordered = db.ordered /\ f.rt = d.rt
      /\ \A u \in Terms \ {t} : f.row[u] = db.row[u]
      /\ f.row[t].ord = db.row[t].ord /\ f.row[t].at = db.row[t].at
      /\ f.row[t].st = "closed" /\ f.row[t].name = db.row[t].name
  BY <1>6, <1>8 DEF OneRow, RowsOnly
<1>10. RowsOnly(g, f) /\ g.row = [f.row EXCEPT ![t] = NoRow]
  BY <1>9, PrunedRow
<1>11. /\ g \in HistDb /\ g.ident = db.ident /\ g.ordered = db.ordered /\ g.rt = d.rt
       /\ \A u \in Terms \ {t} : g.row[u] = db.row[u]
       /\ g.row[t] = NoRow
  BY <1>9, <1>10 DEF RowsOnly, HistDb
<1> HIDE DEF g
<1>12. /\ db' \in HistDb /\ db'.ident = db.ident /\ db'.ordered = db.ordered
       /\ db'.rt = d.rt
       /\ \A u \in Terms \ {t} : db'.row[u] = db.row[u]
       /\ \/ db'.row[t] = NoRow
          \/ /\ db'.row[t].ord = db.row[t].ord /\ db'.row[t].at = db.row[t].at
             /\ db'.row[t].name = db.row[t].name
  BY <1>1, <1>6, <1>9, <1>11
<1>13. {t} \in SUBSET Terms
  OBVIOUS
<1> QED
  BY <1>1, <1>2, <1>3, <1>6, <1>12, <1>13, HistLeaves

LEMMA HistLists ==
  ASSUME HistInv, ListsTerms
  PROVE  HistInv'
<1>0. HistTypes /\ \A u \in Terms : TermInv(u)
  BY DEF HistInv
<1>1. /\ db \in HistDb /\ db.row \in [Terms -> HistRow] /\ mem.idx \in SUBSET Terms
      /\ supv \in [Terms -> {"never", "live", "dead"}]
  BY <1>0, HistFacts DEF HistDb, HistTypes
<1> DEFINE over == {t \in mem.idx : db.rt[t] # "running"}
           rr(S) == [t \in Terms |-> IF t \in S /\ db.row[t].st # "none"
                                     THEN [db.row[t] EXCEPT !.st = "closed"] ELSE db.row[t]]
           shut(S) == [db EXCEPT !.row = rr(S)]
<1>2. mem.idx \subseteq Known(db)
  BY <1>0, <1>1 DEF TermInv, Known
<1>3. (mem.idx \ over) \ Known(db) = {}
  BY <1>2
<1>4. /\ stage = "serving" /\ mem' = Unindexed(mem, over) /\ ForgetsPromise(over)
      /\ UNCHANGED <<json, boots, stage, supv, renames, listedNames>>
      /\ db' \in RepairedAll(shut(over), {}) \/ \E S \in SUBSET over : db' = shut(S)
  BY <1>3 DEF ListsTerms
<1>5. PICK S \in SUBSET over : db' = shut(S)
  <2>1. RepairedAll(shut(over), {}) = {shut(over)}
    BY NothingToRepair
  <2> HIDE DEF shut
  <2> QED
    BY <1>4, <2>1
<1>6. \A t \in Terms : /\ rr(S)[t] \in HistRow
                       /\ t \notin over => rr(S)[t] = db.row[t]
                       /\ rr(S)[t].ord = db.row[t].ord /\ rr(S)[t].at = db.row[t].at
                       /\ rr(S)[t].name = db.row[t].name
  <2> SUFFICES ASSUME NEW t \in Terms
               PROVE   /\ rr(S)[t] \in HistRow
                       /\ t \notin over => rr(S)[t] = db.row[t]
                       /\ rr(S)[t].ord = db.row[t].ord /\ rr(S)[t].at = db.row[t].at
                       /\ rr(S)[t].name = db.row[t].name
    OBVIOUS
  <2>1. db.row[t] \in HistRow
    BY <1>1
  <2> QED
    BY <2>1 DEF HistRow, HistSts
<1>7. rr(S) \in [Terms -> HistRow]
  BY <1>6
<1>8. db' = [db EXCEPT !.row = rr(S)]
  BY <1>5
<1> HIDE DEF rr
<1>9. RowsOnly(db', db) /\ db'.row = rr(S)
  BY <1>1, <1>7, <1>8, RowsUpdate
<1>10. over \in SUBSET Terms /\ \A t \in over : db.row[t].st # "none" /\ db.rt[t] # "running"
  BY <1>0, <1>1 DEF TermInv
<1> HIDE DEF over
<1> QED
  BY <1>1, <1>4, <1>6, <1>9, <1>10, HistLeaves DEF RowsOnly

LEMMA HistRenames ==
  ASSUME HistInv, NEW t \in Terms, NEW n \in Titles, RenamesTerm(t, n)
  PROVE  HistInv'
<1> USE TermsFinite
<1>0. /\ HistTypes /\ OrdInv /\ (\A u \in Terms : TermInv(u)) /\ OrderInv /\ IdentInv
  BY DEF HistInv
<1>1. n \in HistNames /\ n # "none"
  BY SessionHistoryAssumption DEF HistNames
<1>2. /\ stage = "serving" /\ t \in mem.idx /\ mem' = [mem EXCEPT !.name[t] = n]
      /\ \/ db' = RowRenamed(db, t, n) /\ given' = [given EXCEPT ![t] = n]
         \/ UNCHANGED <<db, given>>
      /\ UNCHANGED <<json, boots, stage, supv, promised, listedNames>>
  BY DEF RenamesTerm
<1>3. /\ mem' \in HistMem /\ mem'.ident = mem.ident /\ mem'.idx = mem.idx
      /\ \A u \in Terms : mem'.name[u] = IF u = t THEN n ELSE mem.name[u]
  BY <1>0, <1>1, <1>2, HistFacts DEF HistMem
<1>4. db.row[t].st = "running" /\ t \in Rows(db)
  BY <1>0, <1>2 DEF TermInv, Rows
<1>5. given' \in [Terms -> HistNames] /\ \A u \in Terms \ {t} : given'[u] = given[u]
  BY <1>0, <1>1, <1>2 DEF HistTypes
<1>6. /\ db' \in HistDb /\ db'.ident = db.ident /\ db'.ordered = db.ordered /\ db'.rt = db.rt
      /\ \A u \in Terms \ {t} : db'.row[u] = db.row[u]
      /\ db'.row[t].ord = db.row[t].ord /\ db'.row[t].at = db.row[t].at
      /\ db'.row[t].st = "running" /\ db'.row[t].name # "none"
      /\ given'[t] # "none" => db'.row[t].name = given'[t]
  <2>1. CASE UNCHANGED <<db, given>>
    BY <2>1, <1>0, <1>4, HistFacts DEF TermInv
  <2>2. CASE db' = RowRenamed(db, t, n) /\ given' = [given EXCEPT ![t] = n]
    <3>1. /\ OneRow(db', db, t) /\ db'.row[t].st = db.row[t].st /\ db'.row[t].name = n
      BY <2>2, <1>0, <1>1, <1>4, HistFacts, OneRowFacts
    <3>2. given'[t] = n
      BY <2>2, <1>0 DEF HistTypes
    <3> QED
      BY <3>1, <3>2, <1>1, <1>4 DEF OneRow, RowsOnly
  <2> QED
    BY <1>2, <2>1, <2>2
<1>7. HistTypes'
  BY <1>0, <1>2, <1>3, <1>5, <1>6 DEF HistTypes
<1>8. OrdInv'
  BY <1>0, <1>2, <1>6, HistFacts, OrdKept
<1>9. \A u \in Terms : TermInv(u)'
  BY <1>0, <1>1, <1>2, <1>3, <1>4, <1>5, <1>6 DEF TermInv
<1>10. OrderInv'
  BY <1>0, <1>2, <1>3, <1>4, <1>6 DEF OrderInv, Before
<1>11. IdentInv'
  BY <1>0, <1>2, <1>3, <1>6 DEF IdentInv
<1> QED
  BY <1>7, <1>8, <1>9, <1>10, <1>11 DEF HistInv

LEMMA HistReorders ==
  ASSUME HistInv, NEW wish \in AskedOrders, ReordersTerms(wish)
  PROVE  HistInv'
<1> USE TermsFinite
<1>0. /\ HistTypes /\ OrdInv /\ (\A u \in Terms : TermInv(u)) /\ OrderInv /\ IdentInv
  BY DEF HistInv
<1> DEFINE o == OrderOf(db, wish)
           e == OrderRecorded(db, o)
<1>1. mem.idx \ Known(db) = {}
  <2>1. \A t \in mem.idx : t \in Terms /\ db.row[t].st = "running"
    BY <1>0, HistFacts DEF TermInv
  <2> QED
    BY <2>1 DEF Known
<1>2. RepairedAll(db, mem.idx \ Known(db)) = {db}
  BY <1>1, NothingToRepair
<1>3. /\ stage = "serving"
      /\ UNCHANGED <<json, boots, stage, mem, supv, renames, given, listedNames>>
      /\ \/ db' = e /\ promised' = o
         \/ db' = db /\ promised' = promised
  BY <1>2 DEF ReordersTerms
<1>4. db \in HistDb /\ \A t \in Known(db) : t \in Terms /\ db.row[t].at = t
  <2>1. db \in HistDb
    BY <1>0, HistFacts
  <2>2. \A t \in Terms : db.row[t].st # "none" => db.row[t].at = t
    BY <1>0 DEF TermInv
  <2> QED
    BY <2>1, <2>2 DEF Known
<1>5. /\ RowsOnly(e, db)
      /\ \A t \in Terms : /\ e.row[t].st = db.row[t].st /\ e.row[t].at = db.row[t].at
                          /\ e.row[t].name = db.row[t].name
                          /\ e.row[t].ord # db.row[t].ord => e.row[t].ord \in 0..NumTerms
      /\ \A a, b \in Terms : <<a, b>> \in o =>
           /\ a \in Known(db) /\ b \in Known(db)
           /\ <<a, a>> \in o /\ <<b, b>> \in o
           /\ a # b => e.row[a].ord < e.row[b].ord
  BY <1>4, OrderFacts
<1>6. o \in SUBSET (Terms \X Terms)
  BY DEF OrderOf, Known
<1> HIDE DEF o, e
<1>7. /\ db' \in HistDb /\ db'.ident = db.ident /\ db'.ordered = db.ordered /\ db'.rt = db.rt
      /\ \A t \in Terms : /\ db'.row[t].st = db.row[t].st /\ db'.row[t].at = db.row[t].at
                          /\ db'.row[t].name = db.row[t].name
                          /\ \/ db'.row[t].ord = db.row[t].ord
                             \/ db'.row[t].ord \in 0..NumTerms
  BY <1>3, <1>4, <1>5 DEF RowsOnly
<1>8. HistTypes'
  BY <1>0, <1>3, <1>6, <1>7 DEF HistTypes
<1>9. OrdInv'
  BY <1>0, <1>3, <1>7, HistFacts, OrdKept
<1>10. \A u \in Terms : TermInv(u)'
  BY <1>0, <1>3, <1>7 DEF TermInv
<1>11. OrderInv'
  <2>1. CASE db' = db /\ promised' = promised
    BY <2>1, <1>0, <1>3 DEF OrderInv, Before
  <2>2. CASE db' = e /\ promised' = o
    <3>1. \A a, b \in Terms : <<a, b>> \in o => db.row[a].st = "running" /\ db.row[b].st = "running"
      BY <1>5 DEF Known
    <3> QED
      BY <2>2, <3>1, <1>0, <1>3, <1>5, <1>7 DEF OrderInv, Before
  <2> QED
    BY <1>3, <2>1, <2>2
<1>12. IdentInv'
  BY <1>0, <1>3, <1>7 DEF IdentInv
<1> QED
  BY <1>8, <1>9, <1>10, <1>11, <1>12 DEF HistInv

LEMMA HistStep == HistInv /\ [HistoryNext]_historyVars => HistInv'
<1> SUFFICES ASSUME HistInv, [HistoryNext]_historyVars
             PROVE  HistInv'
  OBVIOUS
<1>1. CASE UNCHANGED historyVars
  BY <1>1 DEF historyVars, HistInv, HistTypes, OrdInv, HasStarted, TermInv, OrderInv, Before,
              IdentInv, Loaded, StateIsIn
<1>2. CASE StartLoads \/ StartOpens \/ StartRecovers
  BY <1>2, HistStarts
<1>3. CASE StartPersists \/ StartPrunes \/ DaemonKilled \/ SavesSnapshot
  BY <1>3, HistServes
<1>4. CASE ListsTerms
  BY <1>4, HistLists
<1>5. ASSUME NEW t \in Terms, ClosesMissing(t) \/ RestoresOne(t)
      PROVE  HistInv'
  BY <1>5, HistRestores
<1>6. ASSUME NEW t \in Terms, CreatesTerm(t) \/ CreateFails(t)
      PROVE  HistInv'
  BY <1>6, HistCreates
<1>7. ASSUME NEW t \in Terms, ClosesTerm(t)
      PROVE  HistInv'
  BY <1>7, HistCloses
<1>8. ASSUME NEW t \in Terms, TerminalExits(t) \/ FinalizesClosed(t)
      PROVE  HistInv'
  BY <1>8, HistEnds
<1>9. ASSUME NEW t \in Terms, NEW n \in Titles, RenamesTerm(t, n)
      PROVE  HistInv'
  BY <1>9, HistRenames
<1>10. ASSUME NEW wish \in AskedOrders, ReordersTerms(wish)
       PROVE  HistInv'
  BY <1>10, HistReorders
<1> QED
  BY <1>1, <1>2, <1>3, <1>4, <1>5, <1>6, <1>7, <1>8, <1>9, <1>10 DEF HistoryNext

LEMMA HistInitInv == HistoryInit => HistInv
<1> SUFFICES ASSUME HistoryInit PROVE HistInv
  OBVIOUS
<1> USE TermsFinite
<1>1. PICK old \in BOOLEAN, v \in {0, 2, 9}, id \in {0, LegacyIdent} :
        /\ db = FirstDb(v, id, old)
        /\ supv = [t \in Terms |-> IF old THEN "live" ELSE "never"]
        /\ given = [t \in Terms |-> IF old THEN "auto" ELSE "none"]
  BY DEF HistoryInit
<1>2. v \in Int /\ id \in Int
  BY DEF LegacyIdent
<1> DEFINE row(t) == IF old THEN [st |-> "running", name |-> "auto", ord |-> 0, at |-> t]
                     ELSE NoRow
           rows == [t \in Terms |-> row(t)]
           rts == [t \in Terms |-> IF old THEN "running" ELSE "none"]
<1>3. \A t \in Terms : /\ row(t) \in HistRow
                       /\ row(t).st = (IF old THEN "running" ELSE "none")
                       /\ row(t).ord = 0
                       /\ old => row(t).name = "auto" /\ row(t).at = t
  BY NoRowType, TermsInt DEF HistRow, HistSts, HistNames
<1> HIDE DEF row
<1>4. /\ rows \in [Terms -> HistRow] /\ rts \in [Terms -> HistSts]
      /\ \A t \in Terms : /\ rows[t].st = (IF old THEN "running" ELSE "none")
                          /\ rows[t].ord = 0 /\ (old => rows[t].name = "auto" /\ rows[t].at = t)
                          /\ rts[t] = (IF old THEN "running" ELSE "none")
  BY <1>3 DEF HistSts
<1>5. db = [ver |-> v, ident |-> id, ordered |-> ~old, rt |-> rts, row |-> rows]
  BY <1>1 DEF FirstDb, row
<1> HIDE DEF rows, rts
<1>6. db \in HistDb /\ db.row = rows /\ db.rt = rts
  BY <1>2, <1>4, <1>5 DEF HistDb
<1>7. json \in [ver : Int, ident : Int]
  BY DEF HistoryInit, NoJson, LegacyIdent
<1>8. /\ boots = 0 /\ stage = "off" /\ mem = NoMem /\ promised = {} /\ listedNames = {}
  BY DEF HistoryInit
<1>9. HistTypes
  <2>1. supv \in [Terms -> {"never", "live", "dead"}] /\ given \in [Terms -> HistNames]
    BY <1>1 DEF HistNames
  <2> QED
    BY <1>6, <1>7, <1>8, <2>1, NoMemType DEF HistTypes, HistStages
<1>10. OrdInv
  <2>1. Cardinality(HasStarted) \in Nat
    BY <1>9, HistFacts
  <2> QED
    BY <1>4, <1>6, <2>1 DEF OrdInv
<1>11. \A t \in Terms : TermInv(t)
  BY <1>1, <1>4, <1>6, <1>8, NoMemType DEF TermInv
<1>12. OrderInv /\ IdentInv
  BY <1>8 DEF OrderInv, IdentInv
<1> QED
  BY <1>9, <1>10, <1>11, <1>12 DEF HistInv

LEMMA HistInvImplies == HistInv => HistoryTypeOK /\ HistoryIsKept
<1> SUFFICES ASSUME HistInv PROVE HistoryTypeOK /\ HistoryIsKept
  OBVIOUS
<1> USE TermsFinite
<1>0. /\ HistTypes /\ OrdInv /\ (\A u \in Terms : TermInv(u)) /\ OrderInv /\ IdentInv
  BY DEF HistInv
<1>1. HistoryTypeOK
  <2>1. \A t \in Terms : db.row[t].ord \in -NumTerms..(2 * NumTerms)
    <3>1. Cardinality(HasStarted) \in 0..NumTerms
      BY <1>0, HistFacts
    <3> QED
      BY <3>1, <1>0 DEF OrdInv
  <2>2. db.rt \in [Terms -> HistSts]
    BY <1>0 DEF HistTypes, HistDb
  <2>3. stage = "serving" => \A t \in mem.idx : mem.name[t] # "none"
    BY <1>0, HistFacts DEF TermInv
  <2> QED
    BY <2>1, <2>2, <2>3, <1>0, HistFacts DEF HistoryTypeOK, HistTypes, HistSts, HistNames, HistStages
<1>2. NamesAreDurable
  BY <1>0 DEF NamesAreDurable, TermInv
<1>3. OrderIsKept
  BY <1>0 DEF OrderIsKept, OrderInv, Known
<1>4. OneIdentity
  <2>1. CASE listedNames = {}
    BY <2>1, FS_EmptySet DEF OneIdentity
  <2>2. CASE listedNames # {}
    <3>1. listedNames = {db.ident}
      BY <2>2, <1>0 DEF IdentInv
    <3>2. Cardinality({db.ident}) = 1
      BY FS_Singleton
    <3> QED
      BY <3>1, <3>2 DEF OneIdentity
  <2> QED
    BY <2>1, <2>2
<1> QED
  BY <1>1, <1>2, <1>3, <1>4 DEF HistoryIsKept

(* What clients were told of their sessions, and who told them, survives   *)
(* restarts, kills and failed writes: names, the order of the list and the *)
(* daemon's identity, for any number of sessions, starts and failures.     *)
THEOREM HistorySurvives == HistorySpec => [](HistoryTypeOK /\ HistoryIsKept)
<1>1. HistInv => HistoryTypeOK /\ HistoryIsKept
  BY HistInvImplies
<1> QED
  BY <1>1, HistInitInv, HistStep, PTL DEF HistorySpec
----------------------------------------------------------------------------
(* The daemon, all parts *)

(* A behaviour of the sum is a behaviour of each of its parts, which stays *)
(* where it is while another one was chosen.                               *)
LEMMA PartsStart ==
  DaemonInit => /\ AuthInit /\ UploadInit /\ RangesInit /\ ClientsInit /\ InstallInit
                /\ HistoryInit /\ FilesInit /\ PushInit /\ PanelInit /\ GitInit /\ CtlInit
  BY DEF DaemonInit

LEMMA PartsStep ==
  [DaemonNext]_daemonVars =>
    /\ [AuthNext]_authVars /\ [UploadNext]_uploadVars /\ [RangesNext]_rangeVars
    /\ [ClientsNext]_clientVars /\ [InstallNext]_installVars /\ [HistoryNext]_historyVars
    /\ [FilesNext]_fileVars /\ [PushNext]_pushVars /\ [PanelNext]_panelVars
    /\ [GitNext]_gitVars /\ [CtlNext]_ctlVars
    /\ UNCHANGED part
<1>1. UNCHANGED daemonVars =>
        /\ UNCHANGED authVars /\ UNCHANGED uploadVars /\ UNCHANGED rangeVars
        /\ UNCHANGED clientVars /\ UNCHANGED installVars /\ UNCHANGED historyVars
        /\ UNCHANGED fileVars /\ UNCHANGED pushVars /\ UNCHANGED panelVars
        /\ UNCHANGED gitVars /\ UNCHANGED ctlVars /\ UNCHANGED part
  BY DEF daemonVars
<1> QED
  BY <1>1 DEF DaemonNext, OthersStay

(* What the daemon keeps and serves, whichever part a behaviour runs: every *)
(* invariant of the parts and the installer's caution hold of the sum that  *)
(* the model checker explores, for every value of the constants.            *)
THEOREM DaemonIsSound ==
  DaemonSpec => /\ [](/\ DaemonTypeOK /\ AuthIsSound /\ UploadIsExact /\ ClientsSeeTheTruth
                      /\ HistoryIsKept /\ StateIsOurs /\ NoticesArrive
                      /\ UnfinishedIsHidden /\ GitLeavesNothing /\ PairingIsKept)
                /\ InstallIsCautious
<1>1. DaemonSpec => /\ AuthSpec /\ UploadSpec /\ RangesSpec /\ ClientsSpec /\ InstallSpec
                    /\ HistorySpec /\ FilesSpec /\ PushSpec /\ PanelSpec /\ GitSpec
                    /\ CtlSpec
  BY PartsStart, PartsStep, PTL DEF DaemonSpec, AuthSpec, UploadSpec, RangesSpec, ClientsSpec,
     InstallSpec, HistorySpec, FilesSpec, PushSpec, PanelSpec, GitSpec, CtlSpec
<1>2. DaemonSpec => [](part \in Parts)
  <2>1. DaemonInit => part \in Parts
    BY DEF DaemonInit
  <2>2. part \in Parts /\ [DaemonNext]_daemonVars => (part \in Parts)'
    BY PartsStep
  <2> QED
    BY <2>1, <2>2, PTL DEF DaemonSpec
<1>3. /\ part \in Parts
      /\ AuthTypeOK /\ UploadTypeOK /\ RangesTypeOK /\ ClientsTypeOK /\ InstallTypeOK
      /\ HistoryTypeOK /\ FilesTypeOK /\ PushTypeOK /\ PanelTypeOK /\ GitTypeOK /\ CtlTypeOK
      => DaemonTypeOK
  BY PartsAssumption DEF DaemonTypeOK
<1> QED
  BY <1>1, <1>2, <1>3, AuthSound, UploadIsWhole, RangesCoverOnce, UploadExact, ClientsAreServed,
     InstallCautious, HistorySurvives, StateIsKept, NoticesReach, PanelsHideUploads,
     GitIsContained, PairingSurvives, PTL
=============================================================================
