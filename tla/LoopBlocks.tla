------------------------------- MODULE LoopBlocks -------------------------------
(***************************************************************************)
(* How spawn_loop (threads/threads.c) divides the iterations 0..loopmax-1  *)
(* of a loop into blocks of one thread each.                               *)
(***************************************************************************)
EXTENDS Integers

BlockSize(loopmax, nthr) == (loopmax + nthr - 1) \div nthr

\* How many of nthr threads are used; undefined for an empty loop.
ThreadsUsed(loopmax, nthr) ==
  LET size == BlockSize(loopmax, nthr) IN (loopmax + size - 1) \div size

Block(loopmax, nthr, i) ==
  LET size == BlockSize(loopmax, nthr)
      end  == i * size + size
  IN  i * size .. (IF end > loopmax THEN loopmax ELSE end) - 1
================================================================================
