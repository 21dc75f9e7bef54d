----------------------------- MODULE MCConvert -----------------------------
(* Traces for Convert, one set of lines for each question.                   *)
EXTENDS Convert

CONSTANTS rw, rw2, wr, wr2    \* lock objects: two reader-writer, two writer-only

MCKind == [l \in Locks |-> IF l \in {rw, rw2} THEN "RWLock" ELSE "WLock"]
MCFlags == [l \in Locks |-> {FALSE}]
MCDataTypes == {"inode", "journal_t"}
MCSections == {[first |-> 6, size |-> 1]}
MCPseudoAddrs == {9}

Inode(base, size) == [action |-> "a", base |-> base, size |-> size, type |-> <<"inode">>]
FreeAt(base, size) == [action |-> "f", base |-> base, size |-> size]
Write(base, addr, c) == [action |-> "w", base |-> base, addr |-> addr, size |-> 1, same |-> FALSE, ctx |-> c]
LocksAt(addrs, subs, type, cs) ==
  [action : {"l"}, addr : addrs, op : {"P", "V"}, sub : subs, type : {type}, ctx : cs]

(* One object with an embedded reader-writer lock, used in two contexts.     *)
MCBufferLines == {Inode(1, 2), FreeAt(1, 2)} \cup {Write(1, 1, c) : c \in Ctxs}
                   \cup LocksAt({2}, SubLocks, "rwlock_t", Ctxs)

(* Overlapping objects, one of them with a subclass; locks in them, static,   *)
(* just behind the section, elsewhere, and pseudo; frees whose size is not   *)
(* that of the allocation; lock types that are skipped or not known.         *)
MCMemoryLines == {Inode(1, 2), Inode(2, 2), [action |-> "a", base |-> 3, size |-> 1, type |-> <<"inode", "ext4">>],
                  [action |-> "a", base |-> 3, size |-> 1, type |-> <<"dentry">>],
                  FreeAt(1, 1), FreeAt(1, 2), FreeAt(2, 2), Write(1, 2, 0), Write(1, 3, 0), [action |-> "p"]}
                   \cup LocksAt({2, 3, 7, 8, 9}, {"WRITER_LOCK"}, "mutex", {0})
                   \cup LocksAt({7}, {"READER_LOCK"}, "mutex", {0})
                   \cup LocksAt({7}, {"WRITER_LOCK"}, "seqlock_t", {0})
                   \cup LocksAt({8}, {"WRITER_LOCK"}, "preempt", {0})

(* Instructions that read and write the lock word, and accesses without one. *)
MCLockWordLines == {Inode(1, 2)} \cup LocksAt({2}, {"WRITER_LOCK"}, "mutex", {0})
                     \cup [action : {"r", "w"}, base : {1}, addr : {2}, size : {1}, same : BOOLEAN, ctx : {0}]
=============================================================================
