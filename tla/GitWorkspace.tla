---------------------------- MODULE GitWorkspace ----------------------------
(***************************************************************************)
(* The git workspaces of git_workspace.c: synchronising to a revision,     *)
(* applying and reverting patches in two steps each, and the line diff.    *)
(* Patches are kept in a ring of MAX_PATCH_STACK ids with the index of the *)
(* next one.  The exported operations act as the owner of the workspace,   *)
(* so their authorisation passes.  A text is the sequence of its lines.    *)
(***************************************************************************)
EXTENDS Integers, Sequences, SequencesExt, FiniteSetsExt

CONSTANTS GitWorkspaces,
          Revisions, ConflictRevisions, \* the latter are "conflict" and "x-conflict"
          Patches, ConflictPatches,     \* the latter begin with "conflict"
          RefusedPatches,               \* credential material, empty or too large
          MaxPatchStack,
          Texts, HunkCapacities

VARIABLES git,     \* g_workspaces
          applied, \* history: the patches applied and not reverted since the sync
          diff     \* the last diff: its texts, capacity and hunks

gitVars == <<git, applied, diff>>

NoId == "none"
EmptyStack == [i \in 0 .. MaxPatchStack - 1 |-> NoId]
EmptyWorkspace == [state |-> "EMPTY", current |-> NoId, target |-> NoId, pending |-> NoId,
                   stack |-> EmptyStack, depth |-> 0, next |-> 0]
NoDiff == [old |-> << >>, new |-> << >>, capacity |-> 0, hunks |-> << >>]

git_workspace_runtime_init ==
  /\ git = [w \in GitWorkspaces |-> EmptyWorkspace]
  /\ applied = [w \in GitWorkspaces |-> << >>]
  /\ diff = NoDiff

git_workspace_create(w, revision) ==
  /\ git[w].state = "EMPTY"
  /\ git' = [git EXCEPT ![w] = [EmptyWorkspace EXCEPT !.state = "READY", !.current = revision]]
  /\ UNCHANGED <<applied, diff>>

\* Also from FAILED; the current revision is answered OK and changes nothing.
git_workspace_sync_start(w, revision) ==
  /\ git[w].state \in {"READY", "FAILED"}
  /\ git[w].current # revision
  /\ git' = [git EXCEPT ![w].state = "SYNCING", ![w].target = revision]
  /\ UNCHANGED <<applied, diff>>

\* A conflict leaves the revision and the patches as they were.
git_workspace_sync_finish(w) ==
  /\ git[w].state = "SYNCING"
  /\ IF git[w].target \in ConflictRevisions
       THEN /\ git' = [git EXCEPT ![w].state = "FAILED", ![w].target = NoId]
            /\ UNCHANGED applied
       ELSE /\ git' = [git EXCEPT ![w] = [EmptyWorkspace EXCEPT !.state = "READY",
                                                                !.current = git[w].target]]
            /\ applied' = [applied EXCEPT ![w] = << >>]
  /\ UNCHANGED diff

git_workspace_patch_apply_start(w, patch) ==
  /\ git[w].state = "READY"
  /\ patch \notin RefusedPatches
  /\ git[w].depth < MaxPatchStack
  /\ git' = IF patch \in ConflictPatches
              THEN [git EXCEPT ![w].state = "FAILED", ![w].pending = NoId]
              ELSE [git EXCEPT ![w].state = "APPLYING", ![w].pending = patch]
  /\ UNCHANGED <<applied, diff>>

git_workspace_patch_apply_finish(w) ==
  /\ git[w].state = "APPLYING"
  /\ git' = [git EXCEPT ![w].stack[git[w].next] = git[w].pending,
                        ![w].pending = NoId,
                        ![w].depth = @ + 1,
                        ![w].next = (@ + 1) % MaxPatchStack,
                        ![w].state = "READY"]
  /\ applied' = [applied EXCEPT ![w] = Append(@, git[w].pending)]
  /\ UNCHANGED diff

\* Mutant: the slot the next patch goes to.
LastIndex_Next(w) == git[w].next

LastIndex(w) == (git[w].next + MaxPatchStack - 1) % MaxPatchStack

git_workspace_patch_revert_start(w) ==
  /\ git[w].state = "READY" /\ git[w].depth # 0
  /\ git[w].stack[LastIndex(w)] # NoId
  /\ git' = [git EXCEPT ![w].state = "REVERTING", ![w].pending = git[w].stack[LastIndex(w)]]
  /\ UNCHANGED <<applied, diff>>

git_workspace_patch_revert_finish(w) ==
  /\ git[w].state = "REVERTING"
  /\ git' = [git EXCEPT ![w].stack[LastIndex(w)] = NoId,
                        ![w].next = LastIndex(w),
                        ![w].depth = IF @ > 0 THEN @ - 1 ELSE 0,
                        ![w].pending = NoId,
                        ![w].state = "READY"]
  /\ applied' = [applied EXCEPT ![w] = Front(@)]
  /\ UNCHANGED diff

(***************************************************************************)
(* The diff.                                                               *)
(***************************************************************************)

\* Lines to compare; the empty text counts none, yet get_line_start finds
\* its one empty line.
count_lines(text) == IF text = << "" >> THEN 0 ELSE Len(text)

lines_equal(old, i, new, j) == i <= Len(old) /\ j <= Len(new) /\ old[i] = new[j]

Unread(old, i, new, j) == i <= count_lines(old) \/ j <= count_lines(new)

\* One hunk: from a mismatch, both sides advance line by line to where the
\* lines agree again or both texts end; the first line is consumed even of
\* a text that counts no lines.
RECURSIVE Mismatch(_, _, _, _)
Mismatch(old, i, new, j) ==
  IF ~Unread(old, i, new, j) \/ lines_equal(old, i, new, j) THEN <<i, j>>
  ELSE Mismatch(old, IF i <= count_lines(old) THEN i + 1 ELSE i,
                new, IF j <= count_lines(new) THEN j + 1 ELSE j)

HunkEnd(old, i, new, j) ==
  Mismatch(old, IF i <= Len(old) THEN i + 1 ELSE i, new, IF j <= Len(new) THEN j + 1 ELSE j)

Hunk(i, j, end) ==
  [old |-> i, old_count |-> end[1] - i, new |-> j, new_count |-> end[2] - j]

RECURSIVE DiffFrom(_, _, _, _, _, _)
DiffFrom(old, i, new, j, capacity, hunks) ==
  IF ~Unread(old, i, new, j) \/ Len(hunks) >= capacity THEN hunks
  ELSE IF lines_equal(old, i, new, j) THEN DiffFrom(old, i + 1, new, j + 1, capacity, hunks)
  ELSE LET end == HunkEnd(old, i, new, j)
       IN DiffFrom(old, end[1], new, end[2], capacity, Append(hunks, Hunk(i, j, end)))

\* The hunks are the caller's, who is done with them before the next diff.
git_workspace_compute_diff(old, new, capacity) ==
  /\ diff = NoDiff
  /\ diff' = [old |-> old, new |-> new, capacity |-> capacity,
              hunks |-> DiffFrom(old, 1, new, 1, capacity, << >>)]
  /\ UNCHANGED <<git, applied>>

GitNext ==
  \/ \E w \in GitWorkspaces :
       \/ \E r \in Revisions : git_workspace_create(w, r)
       \/ \E r \in Revisions \cup ConflictRevisions : git_workspace_sync_start(w, r)
       \/ git_workspace_sync_finish(w)
       \/ \E p \in Patches \cup ConflictPatches \cup RefusedPatches :
            git_workspace_patch_apply_start(w, p)
       \/ git_workspace_patch_apply_finish(w)
       \/ git_workspace_patch_revert_start(w)
       \/ git_workspace_patch_revert_finish(w)

DiffNext ==
  \/ \E old, new \in Texts, capacity \in HunkCapacities :
       git_workspace_compute_diff(old, new, capacity)
  \/ diff # NoDiff /\ diff' = NoDiff /\ UNCHANGED <<git, applied>>

(***************************************************************************)
(* Properties.                                                             *)
(***************************************************************************)

\* The ring of a workspace holds the patches applied since its last sync in
\* order, and a revert in progress names the last of them: index arithmetic
\* modulo MAX_PATCH_STACK, failed syncs and conflicting patches lose none
\* (git_workspace_patch_apply_finish, git_workspace_patch_revert_finish).
PatchesInOrder ==
  \A w \in GitWorkspaces :
     LET n == Len(applied[w])
         Slot(k) == (git[w].next + MaxPatchStack - 1 - (n - k)) % MaxPatchStack
     IN /\ git[w].depth = n
        /\ \A k \in 1 .. n : git[w].stack[Slot(k)] = applied[w][k]
        /\ \A i \in DOMAIN git[w].stack \ {Slot(k) : k \in 1 .. n} : git[w].stack[i] = NoId
        /\ git[w].state = "REVERTING" => git[w].pending = Last(applied[w])

\* A diff that was not cut off says everything: between its hunks, before
\* the first and after the last the texts are the same, line for line
\* (git_workspace_compute_diff).
DiffFaithful ==
  LET H == <<[old |-> 1, old_count |-> 0, new |-> 1, new_count |-> 0]>> \o diff.hunks
           \o <<[old |-> Len(diff.old) + 1, old_count |-> 0,
                 new |-> Len(diff.new) + 1, new_count |-> 0]>>
      Between(k) ==
         [old |-> SubSeq(diff.old, H[k].old + H[k].old_count, H[k + 1].old - 1),
          new |-> SubSeq(diff.new, H[k].new + H[k].new_count, H[k + 1].new - 1)]
  IN Len(diff.hunks) < diff.capacity =>
       \A k \in 1 .. Len(H) - 1 : Between(k).old = Between(k).new

\* The patch stack and the diffs tell what happened to the texts.
WorkspaceFaithful == PatchesInOrder /\ DiffFaithful
=============================================================================
