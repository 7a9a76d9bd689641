------------------------------- MODULE Inode -------------------------------
(***************************************************************************)
(* The inode table and the directory tree of kernel/fs.c, under the system *)
(* calls of kernel/sysfile.c that change it: open, create, mkdir, link,    *)
(* unlink, chdir and close, run by several processes at once.              *)
(*                                                                         *)
(* A step is a section between two points where another process can come   *)
(* in: itable.lock is taken and released within a step, an inode's sleep   *)
(* lock within one or across several.  Directories map names to inode      *)
(* numbers (0: no entry); "." is left out.  The entries of itable are      *)
(* named by the inode they hold, iget never giving two entries to one, and *)
(* the table does not fill up.  File contents are module FileData's, the   *)
(* transactions around each call module Log's.                             *)
(***************************************************************************)
EXTENDS Integers, FiniteSetsExt, Sequences

CONSTANTS Proc,
          NINODES,   \* the inodes of the disk are 1 .. NINODES
          Name,      \* names that can be created
          SysCall,   \* the calls: name, path (names and ".."), new (of link), and
                     \* whether the path starts at the cwd, not at the root
          NoProc

Inum == 1 .. NINODES
ROOTINO == 1
None == 0

VARIABLES
  dinode,  \* dinode[i]: type and nlink on the disk
  ent,     \* ent[i]: the entries of directory i
  itable,  \* itable[i]: ref, valid, lock (its holder), type, nlink
  fth,     \* fth[p]: where p is, its call and locals, its cwd and open file
  ipanic   \* the panic that stopped the kernel, or "no"

vars == <<dinode, ent, itable, fth, ipanic>>

NoEntries == [n \in Name \cup {".."} |-> 0]
NotCached == [ref |-> 0, valid |-> FALSE, lock |-> NoProc, type |-> "free", nlink |-> 0]
Idle == [pc |-> "idle", call |-> "", elems |-> <<>>, new |-> <<>>, ip |-> None, dp |-> None,
         name |-> "", old |-> None, put |-> None, after |-> "", cwd |-> None, file |-> None]

\* A disk with an empty root directory; every process starts there.
Init ==
  /\ dinode = [i \in Inum |-> IF i = ROOTINO THEN [type |-> "dir", nlink |-> 1]
                                             ELSE [type |-> "free", nlink |-> 0]]
  /\ ent = [i \in Inum |-> IF i = ROOTINO THEN [NoEntries EXCEPT ![".."] = ROOTINO] ELSE NoEntries]
  /\ itable = [i \in Inum |-> [NotCached EXCEPT !.ref = IF i = ROOTINO THEN Cardinality(Proc) ELSE 0]]
  /\ fth = [p \in Proc |-> [Idle EXCEPT !.cwd = ROOTINO]]
  /\ ipanic = "no"

-----------------------------------------------------------------------------
\* iget and idup: one more reference.
Iget(tab, i) == [tab EXCEPT ![i].ref = @ + 1]

\* One reference less; iget will find an entry nobody refers to not valid.
Drop(i) == [itable EXCEPT ![i] = IF @.ref = 1 THEN NotCached ELSE [@ EXCEPT !.ref = @ - 1]]

\* What ilock leaves in entry i: it reads the inode from the disk if necessary.
Loaded(i) ==
  IF itable[i].valid THEN itable[i]
  ELSE [itable[i] EXCEPT !.valid = TRUE, !.type = dinode[i].type, !.nlink = dinode[i].nlink]

\* The inode that directory i has under a name, or 0.
Dirlookup(i, name) == ent[i][name]

Unlocked(i) == itable[i].lock = NoProc

At(p, l) == fth[p].pc = l /\ ipanic = "no"

Set(p, r) == fth' = [fth EXCEPT ![p] = r]

\* The call is over: only the current directory and the open file stay.
Returned(r) == [Idle EXCEPT !.cwd = r.cwd, !.file = r.file]
Over(p, file) == Returned([fth[p] EXCEPT !.file = file])

\* p calls iput(i) and goes on at l with the locals of r.
PutThen(p, r, i, l) ==
  Set(p, [(IF l = "end" THEN Returned(r) ELSE r) EXCEPT !.pc = "put", !.put = i, !.after = l])

\* The parent directory and the name in it are not used any more.
DoneWith(f) == [f EXCEPT !.dp = None, !.name = ""]

Panics(why) == ipanic' = why /\ UNCHANGED <<dinode, ent, itable, fth>>

-----------------------------------------------------------------------------
\* Bound: a process has one file open or one current directory besides the root.
HoldsNothing(p) == fth[p].file = None /\ fth[p].cwd = ROOTINO

\* A call starts at the root or at the current directory.
Begin(p, c) ==
  LET start == IF c.relative THEN fth[p].cwd ELSE ROOTINO IN
  /\ At(p, "idle")
  /\ c.call \in {"open", "create"} => HoldsNothing(p)
  /\ c.call = "chdir" => fth[p].file = None
  /\ itable' = Iget(itable, start)
  /\ Set(p, [fth[p] EXCEPT !.pc = "walk", !.call = c.call, !.elems = c.path, !.new = c.new, !.ip = start])
  /\ UNCHANGED <<dinode, ent, ipanic>>

\* close: fileclose of the only descriptor.
Close(p) ==
  /\ At(p, "idle") /\ fth[p].file # None
  /\ PutThen(p, Over(p, None), fth[p].file, "end")
  /\ UNCHANGED <<dinode, ent, itable, ipanic>>

WantsParent(p) == fth[p].call \in {"create", "mkdir", "unlink", "linkto"}

\* Where a path that leads nowhere sends the call.
Failed(p) == IF fth[p].call = "linkto" THEN "unlinkold" ELSE "end"

\* One round of namex: ilock, dirlookup and iunlock of the directory reached;
\* iput of it, unless it is the parent the caller wants.
Walk(p) ==
  LET f == fth[p]  i == f.ip  e == Loaded(i)  tab == [itable EXCEPT ![i] = e]
      n == Dirlookup(i, Head(f.elems))
  IN
  /\ At(p, "walk") /\ Unlocked(i)
  /\ IF e.type = "free" THEN Panics("ilock: no type")
     ELSE /\ IF e.type = "dir" /\ WantsParent(p) /\ Len(f.elems) = 1
               THEN /\ itable' = tab
                    /\ Set(p, [f EXCEPT !.pc = f.call, !.dp = i, !.ip = None, !.elems = <<>>,
                                        !.name = Head(f.elems)])
             ELSE IF e.type = "dir" /\ n # 0
               THEN /\ itable' = Iget(tab, n)
                    /\ PutThen(p, [f EXCEPT !.ip = n, !.elems = Tail(f.elems)], i,
                               IF Len(f.elems) = 1 THEN f.call ELSE "walk")
             ELSE itable' = tab /\ PutThen(p, [f EXCEPT !.elems = <<>>], i, Failed(p))
          /\ UNCHANGED <<dinode, ent, ipanic>>

-----------------------------------------------------------------------------
\* Mutant: the inode is freed although others refer to it.
FreesReferenced(i) == itable[i].valid /\ itable[i].nlink = 0

\* The condition under which iput frees the inode.
Frees(i) == itable[i].ref = 1 /\ itable[i].valid /\ itable[i].nlink = 0

\* The process after its iput.
AfterPut(p) ==
  LET f == fth[p] IN
  Set(p, CASE f.after = "end" -> Over(p, f.file)
           [] f.after = "putold" -> [Returned(f) EXCEPT !.pc = "put", !.put = f.old, !.after = "end"]
           [] OTHER -> [f EXCEPT !.pc = f.after, !.put = None, !.after = ""])

\* iput: drop the reference, or lock the inode to free it.
Put(p) ==
  LET i == fth[p].put IN
  /\ At(p, "put")
  /\ IF Frees(i)
       THEN itable' = [itable EXCEPT ![i].lock = p] /\ Set(p, [fth[p] EXCEPT !.pc = "trunc"])
       ELSE itable' = Drop(i) /\ AfterPut(p)
  /\ UNCHANGED <<dinode, ent, ipanic>>

\* itrunc, type = 0, iupdate, valid = 0, releasesleep.
Trunc(p) ==
  LET i == fth[p].put IN
  /\ At(p, "trunc")
  /\ dinode' = [dinode EXCEPT ![i] = [type |-> "free", nlink |-> 0]]
  /\ ent' = [ent EXCEPT ![i] = NoEntries]
  /\ itable' = [itable EXCEPT ![i] = [NotCached EXCEPT !.ref = itable[i].ref]]
  /\ Set(p, [fth[p] EXCEPT !.pc = "unref"])
  /\ UNCHANGED ipanic

\* The end of that iput: ref--.
Unref(p) ==
  /\ At(p, "unref")
  /\ itable' = Drop(fth[p].put)
  /\ AfterPut(p)
  /\ UNCHANGED <<dinode, ent, ipanic>>

-----------------------------------------------------------------------------
\* open without O_CREATE: ilock, iunlock; the file keeps the reference.
Open(p) ==
  LET i == fth[p].ip  e == Loaded(i) IN
  /\ At(p, "open") /\ Unlocked(i)
  /\ IF e.type = "free" THEN Panics("ilock: no type")
     ELSE itable' = [itable EXCEPT ![i] = e] /\ Set(p, Over(p, i)) /\ UNCHANGED <<dinode, ent, ipanic>>

\* chdir: the old directory is put, or what was found if it is no directory.
Chdir(p) ==
  LET f == fth[p]  i == f.ip  e == Loaded(i) IN
  /\ At(p, "chdir") /\ Unlocked(i)
  /\ IF e.type = "free" THEN Panics("ilock: no type")
     ELSE /\ itable' = [itable EXCEPT ![i] = e]
          /\ IF e.type = "dir" THEN PutThen(p, [f EXCEPT !.cwd = i], f.cwd, "end")
                               ELSE PutThen(p, f, i, "end")
          /\ UNCHANGED <<dinode, ent, ipanic>>

LinkUp(nlink) == nlink + 1

\* link: ilock(ip), nlink++, iupdate, iunlock; directories are refused.
\* nameiparent(new) starts, the reference to ip being kept.
Link(p) ==
  LET f == fth[p]  i == f.ip  e == Loaded(i) IN
  /\ At(p, "link") /\ Unlocked(i)
  /\ IF e.type = "free" THEN Panics("ilock: no type")
     ELSE /\ IF e.type = "dir"
               THEN /\ itable' = [itable EXCEPT ![i] = e]
                    /\ PutThen(p, f, i, "end") /\ UNCHANGED dinode
               ELSE /\ itable' = Iget([itable EXCEPT ![i] = [e EXCEPT !.nlink = LinkUp(@)]], ROOTINO)
                    /\ dinode' = [dinode EXCEPT ![i].nlink = LinkUp(e.nlink)]
                    /\ Set(p, [f EXCEPT !.pc = "walk", !.call = "linkto", !.old = i, !.ip = ROOTINO,
                                        !.elems = f.new, !.new = <<>>])
          /\ UNCHANGED <<ent, ipanic>>

\* dirlink(dp, name, old).  When the name exists, its dirlookup takes a
\* reference to that inode and puts it before dp is unlocked.
Linkto(p) ==
  LET f == fth[p]  n == Dirlookup(f.dp, f.name) IN
  /\ At(p, "linkto") /\ Unlocked(f.dp)
  /\ IF n # 0
       THEN /\ itable' = Iget([itable EXCEPT ![f.dp].lock = p], n)
            /\ PutThen(p, [f EXCEPT !.name = ""], n, "linkbad") /\ UNCHANGED ent
       ELSE /\ ent' = [ent EXCEPT ![f.dp][f.name] = f.old]
            /\ PutThen(p, DoneWith(f), f.dp, "putold") /\ UNCHANGED itable
  /\ UNCHANGED <<dinode, ipanic>>

\* iunlockput(dp) on the way to bad, and of unlink's dp.
Unlockput(p) ==
  LET f == fth[p] IN
  /\ At(p, "linkbad") \/ At(p, "unlinkbad")
  /\ itable' = [itable EXCEPT ![f.dp].lock = NoProc]
  /\ PutThen(p, f, f.dp, IF f.pc = "linkbad" THEN "unlinkold" ELSE "end")
  /\ UNCHANGED <<dinode, ent, ipanic>>

\* bad: ilock(ip), nlink--, iupdate, iunlockput.
Unlinkold(p) ==
  LET i == fth[p].old  e == Loaded(i) IN
  /\ At(p, "unlinkold") /\ Unlocked(i)
  /\ itable' = [itable EXCEPT ![i] = [e EXCEPT !.nlink = @ - 1]]
  /\ dinode' = [dinode EXCEPT ![i].nlink = e.nlink - 1]
  /\ PutThen(p, fth[p], i, "end")
  /\ UNCHANGED <<ent, ipanic>>

-----------------------------------------------------------------------------
\* unlink: ilock(dp) and dirlookup.
Unlink(p) ==
  LET f == fth[p]  n == IF f.name = ".." THEN 0 ELSE Dirlookup(f.dp, f.name) IN
  /\ At(p, "unlink") /\ Unlocked(f.dp)
  /\ IF n = 0 THEN PutThen(p, f, f.dp, "end") /\ UNCHANGED itable
     ELSE /\ itable' = Iget([itable EXCEPT ![f.dp].lock = p], n)
          /\ Set(p, [f EXCEPT !.pc = "unlinkip", !.ip = n])
  /\ UNCHANGED <<dinode, ent, ipanic>>

Isdirempty(i) == \A n \in Name : ent[i][n] = 0

\* ilock(ip) while dp is locked; the entry goes, dp is unlocked and put.
Unlinkip(p) ==
  LET f == fth[p]  e == Loaded(f.ip)
      nlink == itable[f.dp].nlink - IF e.type = "dir" THEN 1 ELSE 0
  IN
  /\ At(p, "unlinkip") /\ Unlocked(f.ip)
  /\ IF e.type = "free" THEN Panics("ilock: no type")
     ELSE IF e.nlink < 1 THEN Panics("unlink: nlink < 1")
     ELSE /\ IF e.type = "dir" /\ ~ Isdirempty(f.ip)
               THEN /\ itable' = [itable EXCEPT ![f.ip] = e]
                    /\ PutThen(p, [f EXCEPT !.ip = None], f.ip, "unlinkbad") /\ UNCHANGED <<dinode, ent>>
               ELSE /\ itable' = [itable EXCEPT ![f.ip] = [e EXCEPT !.lock = p],
                                                ![f.dp].lock = NoProc, ![f.dp].nlink = nlink]
                    /\ dinode' = [dinode EXCEPT ![f.dp].nlink = nlink]
                    /\ ent' = [ent EXCEPT ![f.dp][f.name] = 0]
                    /\ PutThen(p, DoneWith(f), f.dp, "unlinkdone")
          /\ UNCHANGED ipanic

\* ip->nlink--, iupdate, iunlockput.
Unlinkdone(p) ==
  LET i == fth[p].ip IN
  /\ At(p, "unlinkdone")
  /\ itable' = [itable EXCEPT ![i].nlink = @ - 1, ![i].lock = NoProc]
  /\ dinode' = [dinode EXCEPT ![i].nlink = itable[i].nlink - 1]
  /\ PutThen(p, fth[p], i, "end")
  /\ UNCHANGED <<ent, ipanic>>

-----------------------------------------------------------------------------
\* create: ilock(dp), dirlookup; if the name is new, ialloc marks a free inode.
Create(p) ==
  LET f == fth[p]  n == Dirlookup(f.dp, f.name)
      free == {i \in Inum : dinode[i].type = "free"}
      type == IF f.call = "mkdir" THEN "dir" ELSE "file"
  IN
  /\ (At(p, "create") \/ At(p, "mkdir")) /\ Unlocked(f.dp)
  /\ IF n # 0
       THEN /\ itable' = Iget(itable, n)
            /\ PutThen(p, DoneWith([f EXCEPT !.ip = n]), f.dp, "exists")
            /\ UNCHANGED <<dinode, ent, ipanic>>
     ELSE IF free = {} THEN Panics("ialloc: no inodes")
     ELSE /\ itable' = [itable EXCEPT ![f.dp].lock = p]
          /\ dinode' = [dinode EXCEPT ![Min(free)] = [type |-> type, nlink |-> 0]]
          /\ Set(p, [f EXCEPT !.pc = "ialloc", !.ip = Min(free)])
          /\ UNCHANGED <<ent, ipanic>>

\* The end of ialloc: iget.
Ialloc(p) ==
  /\ At(p, "ialloc")
  /\ itable' = Iget(itable, fth[p].ip)
  /\ Set(p, [fth[p] EXCEPT !.pc = "fill"])
  /\ UNCHANGED <<dinode, ent, ipanic>>

\* ilock(ip), nlink = 1, iupdate, the entries, iunlockput(dp).
Fill(p) ==
  LET f == fth[p]  e == Loaded(f.ip)
      nlink == itable[f.dp].nlink + IF e.type = "dir" THEN 1 ELSE 0
  IN
  /\ At(p, "fill") /\ Unlocked(f.ip)
  /\ itable' = [itable EXCEPT ![f.ip] = [e EXCEPT !.nlink = 1, !.lock = p],
                              ![f.dp].lock = NoProc, ![f.dp].nlink = nlink]
  /\ dinode' = [dinode EXCEPT ![f.ip].nlink = 1, ![f.dp].nlink = nlink]
  /\ ent' = [ent EXCEPT ![f.ip][".."] = IF e.type = "dir" THEN f.dp ELSE 0, ![f.dp][f.name] = f.ip]
  /\ PutThen(p, DoneWith(f), f.dp, "created")
  /\ UNCHANGED ipanic

\* The file stays open; mkdir puts the directory.
Created(p) ==
  LET f == fth[p] IN
  /\ At(p, "created")
  /\ itable' = [itable EXCEPT ![f.ip].lock = NoProc]
  /\ IF f.call = "create" THEN Set(p, Over(p, f.ip)) ELSE PutThen(p, f, f.ip, "end")
  /\ UNCHANGED <<dinode, ent, ipanic>>

\* The name existed: create opens a file, and refuses the rest.
Exists(p) ==
  LET f == fth[p]  e == Loaded(f.ip) IN
  /\ At(p, "exists") /\ Unlocked(f.ip)
  /\ IF e.type = "free" THEN Panics("ilock: no type")
     ELSE /\ itable' = [itable EXCEPT ![f.ip] = e]
          /\ IF f.call = "create" /\ e.type = "file" THEN Set(p, Over(p, f.ip)) ELSE PutThen(p, f, f.ip, "end")
          /\ UNCHANGED <<dinode, ent, ipanic>>

-----------------------------------------------------------------------------
Step(p) ==
  \/ Walk(p) \/ Put(p) \/ Trunc(p) \/ Unref(p)
  \/ Open(p) \/ Chdir(p) \/ Link(p) \/ Linkto(p) \/ Unlockput(p) \/ Unlinkold(p)
  \/ Unlink(p) \/ Unlinkip(p) \/ Unlinkdone(p)
  \/ Create(p) \/ Ialloc(p) \/ Fill(p) \/ Created(p) \/ Exists(p)

\* A kernel that panicked stands still.
Halted == ipanic # "no" /\ UNCHANGED vars

Next == (\E p \in Proc : (\E c \in SysCall : Begin(p, c)) \/ Close(p) \/ Step(p)) \/ Halted

Spec == Init /\ [][Next]_vars

-----------------------------------------------------------------------------
\* No inode is freed while somebody has it: the file a process has open and the
\* directory it is in are allocated on the disk (fs.c:337-351).  What a valid
\* entry of the table says of an inode that is not locked is what the disk says.
InodesStay ==
  /\ \A p \in Proc : \A i \in {fth[p].cwd, fth[p].file} \ {None} :
       itable[i].ref > 0 /\ dinode[i].type # "free"
  /\ \A i \in Inum : itable[i].valid /\ Unlocked(i) =>
       itable[i].type = dinode[i].type /\ itable[i].nlink = dinode[i].nlink

\* The entries of a directory that is itself linked name allocated inodes, and
\* an inode has at least as many links as it has such entries.
EntriesAlive ==
  LET Dirs == {i \in Inum : dinode[i].type = "dir" /\ dinode[i].nlink > 0}
      Entries(j) == {<<i, n>> \in Dirs \X Name : ent[i][n] = j}
  IN \A j \in Inum \ {ROOTINO} :
       Entries(j) # {} => dinode[j].type # "free" /\ dinode[j].nlink >= Cardinality(Entries(j))

\* The kernel does not panic for a damaged tree: ilock never finds an inode
\* without a type (fs.c:310) nor unlink one without links (sysfile.c:211), and
\* the acquiresleep of iput never has to wait (fs.c:340).
TreeNeverPanics ==
  /\ ipanic \notin {"ilock: no type", "unlink: nlink < 1"}
  /\ \A p \in Proc : At(p, "put") /\ Frees(fth[p].put) => Unlocked(fth[p].put)
=============================================================================
