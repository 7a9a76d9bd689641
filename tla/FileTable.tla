----------------------------- MODULE FileTable -----------------------------
(***************************************************************************)
(* The file table of kernel/file.c and the descriptor tables of the        *)
(* processes, under the calls of kernel/sysfile.c and kernel/proc.c that   *)
(* take and drop references: open, dup, close, pipe, fork and exit, with   *)
(* every way they fail.                                                    *)
(*                                                                         *)
(* ftable.lock is taken and released within a step; the processes          *)
(* interleave between steps.  What a file refers to is an object: the      *)
(* inode (one stands for all; iref counts the references) or one end of a  *)
(* pipe.                                                                   *)
(***************************************************************************)
EXTENDS Integers, FiniteSetsExt, SequencesExt

CONSTANTS Process,  \* process slots
          Initproc, \* the process that runs at the start and may not exit
          NFILE,    \* entries of ftable
          NOFILE,   \* descriptors of a process
          NPIPE     \* bound: pipes that memory has room for

File == 1 .. NFILE
Fd == 1 .. NOFILE
None == 0
NoObj == <<"none">>
Inode == <<"inode">>
End(k, e) == <<"pipe", k, e>>

VARIABLES
  ftable,  \* ftable[f]: ref, obj
  ofile,   \* ofile[p][fd]: a file, or None
  call,    \* call[p]: where p is, the file it allocated, what it must still drop
  iref,    \* references to inodes
  ends     \* ends[k]: the open ends of pipe k

vars == <<ftable, ofile, call, iref, ends>>

NoFds == [fd \in Fd |-> None]
Idle == [pc |-> "idle", f |-> None, todo |-> <<>>]
Dead == [pc |-> "dead", f |-> None, todo |-> <<>>]

Init ==
  /\ ftable = [f \in File |-> [ref |-> 0, obj |-> NoObj]]
  /\ ofile = [p \in Process |-> NoFds]
  /\ call = [p \in Process |-> IF p = Initproc THEN Idle ELSE Dead]
  /\ iref = 0
  /\ ends = [k \in 1 .. NPIPE |-> {}]

At(p, l) == call[p].pc = l

\* p does what is in todo and returns.
Finish(p, todo) == call' = [call EXCEPT ![p] = [Idle EXCEPT !.pc = "drop", !.todo = todo]]

Return(p) == call' = [call EXCEPT ![p] = Idle]

CloseOf(f) == <<"close", f>>
ReleaseOf(obj) == <<"release", obj>>

-----------------------------------------------------------------------------
FreeFiles == {f \in File : ftable[f].ref = 0}

\* filealloc: the first unused entry, its reference count set to 1.
Filealloc == [ftable EXCEPT ![Min(FreeFiles)].ref = 1]

\* fdalloc takes the first free descriptor.
FreeFds(p) == {fd \in Fd : ofile[p][fd] = None}

\* open: namei or create returned an inode, with a reference to it.
Open(p) ==
  /\ At(p, "idle")
  /\ iref' = iref + 1
  /\ call' = [call EXCEPT ![p].pc = "open"]
  /\ UNCHANGED <<ftable, ofile, ends>>

\* filealloc and fdalloc; without a descriptor the new file is closed, and in
\* both failures the inode is put.
OpenAlloc(p) ==
  /\ At(p, "open")
  /\ IF FreeFiles = {}
       THEN Finish(p, <<ReleaseOf(Inode)>>) /\ UNCHANGED <<ftable, ofile>>
     ELSE IF FreeFds(p) = {}
       THEN /\ ftable' = Filealloc
            /\ Finish(p, <<CloseOf(Min(FreeFiles)), ReleaseOf(Inode)>>)
            /\ UNCHANGED ofile
     ELSE /\ ftable' = [Filealloc EXCEPT ![Min(FreeFiles)].obj = Inode]
          /\ ofile' = [ofile EXCEPT ![p][Min(FreeFds(p))] = Min(FreeFiles)]
          /\ Return(p)
  /\ UNCHANGED <<iref, ends>>

\* dup: fdalloc, filedup.
Dup(p, fd) ==
  LET f == ofile[p][fd] IN
  /\ At(p, "idle") /\ f # None /\ FreeFds(p) # {}
  /\ ofile' = [ofile EXCEPT ![p][Min(FreeFds(p))] = f]
  /\ ftable' = [ftable EXCEPT ![f].ref = @ + 1]
  /\ UNCHANGED <<call, iref, ends>>

\* close: the descriptor is cleared, then fileclose.
Close(p, fd) ==
  LET f == ofile[p][fd] IN
  /\ At(p, "idle") /\ f # None
  /\ ofile' = [ofile EXCEPT ![p][fd] = None]
  /\ Finish(p, <<CloseOf(f)>>)
  /\ UNCHANGED <<ftable, iref, ends>>

\* pipealloc's first filealloc; when there is none, the call fails at once.
Pipe(p) ==
  /\ At(p, "idle") /\ FreeFiles # {}
  /\ ftable' = Filealloc
  /\ call' = [call EXCEPT ![p] = [Idle EXCEPT !.pc = "pipe", !.f = Min(FreeFiles)]]
  /\ UNCHANGED <<ofile, iref, ends>>

\* Mutant: when the call fails, only the read end is closed.
DropReadEnd(rf, wf) == <<CloseOf(rf)>>

\* What sys_pipe and pipealloc close when they fail after both fileallocs.
DropBoth(rf, wf) == <<CloseOf(rf), CloseOf(wf)>>

\* The second filealloc, kalloc and the rest of sys_pipe.  Memory may be out;
\* descriptors may be out; copyout to the caller may fail.
PipeAlloc(p, memory, copied) ==
  LET rf == call[p].f  wf == Min(FreeFiles)  free == FreeFds(p)
      unused == {k \in DOMAIN ends : ends[k] = {}}  k == Min(unused)
      fd0 == Min(free)  fd1 == Min(free \ {fd0})
  IN
  /\ At(p, "pipe")
  /\ IF FreeFiles = {}
       THEN Finish(p, <<CloseOf(rf)>>) /\ UNCHANGED <<ftable, ofile, ends>>
     ELSE IF unused = {} \/ ~ memory
       THEN ftable' = Filealloc /\ Finish(p, DropBoth(rf, wf)) /\ UNCHANGED <<ofile, ends>>
     ELSE /\ ftable' = [Filealloc EXCEPT ![rf].obj = End(k, "read"), ![wf].obj = End(k, "write")]
          /\ ends' = [ends EXCEPT ![k] = {"read", "write"}]
          /\ IF Cardinality(free) < 2 \/ ~ copied
               THEN Finish(p, DropBoth(rf, wf)) /\ UNCHANGED ofile
               ELSE ofile' = [ofile EXCEPT ![p][fd0] = rf, ![p][fd1] = wf] /\ Return(p)
  /\ UNCHANGED iref

-----------------------------------------------------------------------------
\* The references filedup adds to f for a child of p.
Dups(p, f) == Cardinality({fd \in Fd : ofile[p][fd] = f})

\* fork: filedup of every open file.  Nobody can close them meanwhile.
Fork(p, child) ==
  /\ At(p, "idle") /\ At(child, "dead")
  /\ ofile' = [ofile EXCEPT ![child] = ofile[p]]
  /\ ftable' = [f \in File |-> [ftable[f] EXCEPT !.ref = @ + Dups(p, f)]]
  /\ call' = [call EXCEPT ![child] = Idle]
  /\ UNCHANGED <<iref, ends>>

\* exit: fileclose of every open file, in order, then p->cwd and the zombie.
Exit(p) ==
  /\ At(p, "idle") /\ p # Initproc
  /\ ofile' = [ofile EXCEPT ![p] = NoFds]
  /\ call' = [call EXCEPT ![p] = [Idle EXCEPT !.pc = "exit",
                !.todo = [n \in 1 .. Cardinality(Fd \ FreeFds(p)) |->
                            CloseOf(ofile[p][SetToSeq(Fd \ FreeFds(p))[n]])]]]
  /\ UNCHANGED <<ftable, iref, ends>>

Dropping(p) == call[p].pc \in {"drop", "exit"} /\ call[p].todo # <<>>

\* fileclose under ftable.lock: the last reference frees the entry, of which ff
\* keeps a copy.
Fileclose(p) ==
  LET c == call[p]  f == Head(c.todo)[2]  e == ftable[f]
      last == IF e.ref = 1 /\ e.obj # NoObj THEN <<ReleaseOf(e.obj)>> ELSE <<>>
  IN
  /\ Dropping(p) /\ Head(c.todo)[1] = "close"
  /\ ftable' = [ftable EXCEPT ![f] = IF e.ref = 1 THEN [ref |-> 0, obj |-> NoObj] ELSE [e EXCEPT !.ref = @ - 1]]
  /\ call' = [call EXCEPT ![p].todo = last \o Tail(@)]
  /\ UNCHANGED <<ofile, iref, ends>>

\* iput or pipeclose, after the lock is released.
Release(p) ==
  LET obj == Head(call[p].todo)[2] IN
  /\ Dropping(p) /\ Head(call[p].todo)[1] = "release"
  /\ iref' = IF obj = Inode THEN iref - 1 ELSE iref
  /\ ends' = [k \in DOMAIN ends |-> {e \in ends[k] : obj # End(k, e)}]
  /\ call' = [call EXCEPT ![p].todo = Tail(@)]
  /\ UNCHANGED <<ftable, ofile>>

\* The call is over, or the process is.
Done(p) ==
  /\ call[p].pc \in {"drop", "exit"} /\ call[p].todo = <<>>
  /\ call' = [call EXCEPT ![p] = IF call[p].pc = "exit" THEN Dead ELSE Idle]
  /\ UNCHANGED <<ftable, ofile, iref, ends>>

Next ==
  \E p \in Process :
    \/ Open(p) \/ OpenAlloc(p) \/ Pipe(p)
    \/ \E memory, copied \in BOOLEAN : PipeAlloc(p, memory, copied)
    \/ \E fd \in Fd : Dup(p, fd) \/ Close(p, fd)
    \/ \E child \in Process : Fork(p, child)
    \/ Exit(p) \/ Fileclose(p) \/ Release(p) \/ Done(p)

Spec == Init /\ [][Next]_vars

-----------------------------------------------------------------------------
\* How often p is going to do d.
Pending(p, d) == Cardinality({n \in DOMAIN call[p].todo : call[p].todo[n] = d})

\* The reference count of a file (file.h: "reference count") is the number of
\* descriptors that name it plus what calls in progress have in hand.
FileRefsExact ==
  \A f \in File : ftable[f].ref =
    MapThenSumSet(LAMBDA p : Dups(p, f) + Pending(p, CloseOf(f))
                                            + (IF call[p].f = f THEN 1 ELSE 0), Process)

\* Nothing a file refers to is leaked or let go early: a reference to an inode
\* is that of an open file or of a call in progress, and the end of a pipe is
\* open exactly as long as one file, or one fileclose in progress, has it.
ObjectsHeldOnce ==
  LET Has(obj) == Cardinality({f \in File : ftable[f].ref > 0 /\ ftable[f].obj = obj})
                  + MapThenSumSet(LAMBDA p : Pending(p, ReleaseOf(obj)), Process)
  IN /\ iref = Has(Inode) + Cardinality({p \in Process : At(p, "open")})
     /\ \A k \in DOMAIN ends : \A e \in {"read", "write"} :
          Has(End(k, e)) = IF e \in ends[k] THEN 1 ELSE 0
=============================================================================
