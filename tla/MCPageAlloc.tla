---------------------------- MODULE MCPageAlloc ----------------------------
(***************************************************************************)
(* Small instances of PageAlloc: 8 pages of 4 words, 2 pages per bitmap    *)
(* word, the kernel image ending in the middle of page 1.                  *)
(***************************************************************************)
EXTENDS PageAlloc

R(s, n) == [start |-> s, size |-> n]

\* kernel below the memory; memory after a low range that is ignored
PlainMap == <<R(0, 4), R(8, 20)>>
\* kernel at the start of the first range, then a hole (pages 4 and 5)
HoleMap == <<R(0, 14), R(24, 4)>>
\* the bitmap ends with its page: the words above it lie in allocatable memory
TightMap == <<R(0, 20)>>
\* a range that reaches the top of the address space (the sum wraps)
WrapMap == <<R(8, 8), R(24, 12)>>
NoMap == << >>

RepoMaps == {PlainMap, HoleMap, TightMap, WrapMap, NoMap}
Ranges == {<<6, 1>>}
NoRanges == {}
=============================================================================
