----------------------------- MODULE SdListing -----------------------------
(* sd_card_list_files_match() of sd_card.c: a recursive search of the card for *)
(* names that match.  A call of traverse_down() holds one block of each of two *)
(* slabs while it goes through the names of its folder; one step is one turn   *)
(* of that loop.  A path is the sequence of the places of its names, so that   *)
(* dir and token are the whole stack of the recursion: the call for dir was    *)
(* made by the one for its front, at the place that is its last.               *)
EXTENDS Integers, Sequences

CONSTANTS Trees,         \* the cards: see IsCard
          LEVELS_MAX,    \* SD_CARD_LEVELS_MAX, which is also the number of blocks of a slab
          BufEntries,    \* names that fit in SD_CARD_BUF_SIZE
          ResultMax      \* values of result_file_num_max

\* What the search makes of a name: it is skipped, a result (even of a folder), listed,
\* known to be no folder by its dot, or refused by the file system.
Kinds == {"system", "match", "folder", "file", "broken"}
Paths == Seq(Nat \ {0})

\* A card: every path from the root on, and how many names each folder has.
IsCard(t) ==
  /\ DOMAIN t \subseteq Paths /\ <<>> \in DOMAIN t /\ t[<<>>].kind \in {"folder", "file", "broken"}
  /\ \A p \in DOMAIN t :
       /\ t[p] \in [kind : Kinds, size : Nat]
       /\ \A i \in 1 .. t[p].size : Append(p, i) \in DOMAIN t
       /\ \A k \in 1 .. Len(p) : LET above == SubSeq(p, 1, k - 1)
                                 IN above \in DOMAIN t /\ p[k] \in 1 .. t[above].size

ASSUME ListingAssumption ==
  /\ \A t \in Trees : IsCard(t)
  /\ LEVELS_MAX \in Nat \ {0} /\ BufEntries \in Nat /\ ResultMax \subseteq Nat \ {0}

VARIABLES tree, result_max, \* the card, and result_file_num_max
          listing_pc,       \* where the innermost call is
          dir, token,       \* its path, and the place of the name it is at
          blocks,           \* blocks in use of either slab
          result, ret       \* the matches found, and the last call's result
listingVars == <<tree, result_max, listing_pc, dir, token, blocks, result, ret>>

ListingInit ==
  /\ tree \in Trees /\ result_max \in ResultMax
  /\ listing_pc = "call" /\ dir = <<>> /\ token = 1
  /\ blocks = 0 /\ result = <<>> /\ ret = "ok"
-----------------------------------------------------------------------------
\* The innermost call returns; its caller goes on after the name, whatever the result.
Return ==
  IF dir = <<>>
  THEN listing_pc' = "done" /\ UNCHANGED <<dir, token>>
  ELSE /\ listing_pc' = "names"
       /\ dir' = SubSeq(dir, 1, Len(dir) - 1) /\ token' = dir[Len(dir)] + 1

\* Neither is the depth above the limit, nor are the slabs without a block.
MayOpen == Len(dir) <= LEVELS_MAX /\ blocks # LEVELS_MAX

ReturnAtOnce ==
  /\ listing_pc = "call" /\ ~MayOpen
  /\ ret' = IF Len(dir) > LEVELS_MAX THEN "ok" ELSE "ENOMEM"
  /\ Return
  /\ UNCHANGED <<tree, result_max, blocks, result>>

\* sd_card_list_files()
ListFiles(p) ==
  CASE tree[p].kind = "file"   -> "ENOENT"
    [] tree[p].kind = "broken" -> "EIO"
    [] OTHER -> IF tree[p].size > BufEntries THEN "EINVAL" ELSE "ok"

OpenFolder ==
  /\ listing_pc = "call" /\ MayOpen
  /\ blocks' = blocks + 1
  /\ ret' = IF ListFiles(dir) = "ENOENT" THEN "ok" ELSE ListFiles(dir)
  /\ listing_pc' = IF ListFiles(dir) = "ok" THEN "names" ELSE "cleanup"
  /\ token' = 1
  /\ UNCHANGED <<tree, result_max, dir, result>>

\* The name at the token.
Name == Append(dir, token)
AtName(kinds) == listing_pc = "names" /\ token <= tree[dir].size /\ tree[Name].kind \in kinds

SkipName ==
  /\ AtName({"system"})
  /\ token' = token + 1
  /\ UNCHANGED <<tree, result_max, listing_pc, dir, blocks, result, ret>>

\* Mutant: one match more than the result has room for.
OneTooMany == Len(result) > result_max
ResultIsFull == Len(result) >= result_max

AddMatch ==
  /\ AtName({"match"}) /\ ~ResultIsFull
  /\ result' = Append(result, Name)
  /\ token' = token + 1
  /\ UNCHANGED <<tree, result_max, listing_pc, dir, blocks, ret>>

NoRoom ==
  /\ AtName({"match"}) /\ ResultIsFull
  /\ ret' = "ENOMEM"
  /\ listing_pc' = "cleanup"
  /\ UNCHANGED <<tree, result_max, dir, token, blocks, result>>

TraverseDown ==
  /\ AtName({"folder", "file", "broken"})
  /\ dir' = Name
  /\ listing_pc' = "call"
  /\ UNCHANGED <<tree, result_max, token, blocks, result, ret>>

NoMoreNames ==
  /\ listing_pc = "names" /\ token > tree[dir].size
  /\ listing_pc' = "cleanup"
  /\ UNCHANGED <<tree, result_max, dir, token, blocks, result, ret>>

\* Mutant: a block stays in use after a folder.
FreeBlocksNot == blocks' = blocks
FreeBlocks == blocks' = blocks - 1

Cleanup ==
  /\ listing_pc = "cleanup"
  /\ FreeBlocks
  /\ Return
  /\ UNCHANGED <<tree, result_max, result, ret>>

ListingNext == \/ ReturnAtOnce \/ OpenFolder
               \/ SkipName \/ AddMatch \/ NoRoom \/ TraverseDown \/ NoMoreNames
               \/ Cleanup

ListingSpec == ListingInit /\ [][ListingNext]_listingVars
-----------------------------------------------------------------------------
ListingTypeOK ==
  /\ IsCard(tree) /\ result_max \in ResultMax
  /\ listing_pc \in {"call", "names", "cleanup", "done"}
  /\ dir \in Paths /\ dir \in DOMAIN tree /\ token \in Nat
  /\ result \in Seq(Paths) /\ ret \in {"ok", "ENOMEM", "EINVAL", "EIO"}

\* The matches there are: names in folders that can be read, down to the last level.
IsRead(p) == tree[p].kind = "folder" /\ tree[p].size <= BufEntries
Matches == {p \in DOMAIN tree : /\ tree[p].kind = "match" /\ Len(p) <= LEVELS_MAX
                                /\ \A k \in 1 .. Len(p) : IsRead(SubSeq(p, 1, k - 1))}

\* The order of the tree: the first place where two paths differ decides.
Precedes(p, q) == \E k \in 1 .. Len(p) : /\ k <= Len(q) /\ p[k] < q[k]
                                         /\ \A j \in 1 .. k - 1 : p[j] = q[j]

\* A search gives back every block, whatever error it met, and never holds more than
\* the slabs have.
BlocksGivenBack == blocks \in 0 .. LEVELS_MAX /\ (listing_pc = "done" => blocks = 0)

\* What is found are matches in the order of the tree, no more than there is room for.
FoundInOrder ==
  /\ Len(result) <= result_max
  /\ \A i \in 1 .. Len(result) : result[i] \in Matches
  /\ \A i, j \in 1 .. Len(result) : i < j => Precedes(result[i], result[j])

\* At the end nothing is left out but what comes after a full result: a folder that
\* cannot be read does not hide what comes after it.
Given(m) == \/ \E i \in 1 .. Len(result) : result[i] = m
            \/ Len(result) = result_max /\ \A i \in 1 .. Len(result) : Precedes(result[i], m)
NothingLeftOut == listing_pc = "done" => \A m \in Matches : Given(m)

\* A search finds what it should, in order, and leaves nothing behind.
FilesAreFound == BlocksGivenBack /\ FoundInOrder /\ NothingLeftOut
=============================================================================
