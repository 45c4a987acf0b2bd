------------------------------- MODULE Blobs -------------------------------
(***************************************************************************)
(* One blob of the content-addressed blob store: PutBlob of                *)
(* internal/hp/store.go, called by every wrapper (hindsight record) that   *)
(* produced this output, and by UnpackCache of bundle.go, which repeats    *)
(* the same steps.  The wrappers are separate processes that share nothing *)
(* but two file names, the blob's and that name with ".tmp", and all write *)
(* the same bytes.                                                         *)
(*                                                                         *)
(* A name refers to an inode, and so does the descriptor of a writer; a    *)
(* rename moves a name and leaves the descriptors as they are.  An inode   *)
(* holds some of the Pieces the output is written in: a writer writes them *)
(* in order from the start, and opening with O_TRUNC empties the inode     *)
(* under whoever else is writing it.                                       *)
(***************************************************************************)
EXTENDS Naturals

CONSTANTS
  Writers,  \* processes that put the blob
  Inodes,
  NoInode,  \* a name that does not exist, a descriptor that is not open
  Pieces,   \* the output is written in this many pieces
  Faults    \* which failures happen, of {"full", "die"}

ASSUME BlobsAssumption == NoInode \notin Inodes /\ Pieces \in Nat

VARIABLES
  path, tmp,   \* what the two names refer to
  data,        \* data[i]: the pieces inode i holds
  wr,          \* the writers
  overlapped,  \* history: a writer opened the temporary file while another
               \* was between its own open and its rename
  abandoned    \* history: inodes that a writer left half way

blobVars == <<path, tmp, data, wr, overlapped, abandoned>>

(* stat, open, write: what is next.  done: PutBlob returned the name.      *)
(* raced: the rename failed.  failed: an open or a write failed.           *)
WriterPCs == {"idle", "stat", "open", "write", "done", "raced", "failed"}
WriterState == [pc : WriterPCs, fd : Inodes \cup {NoInode}, at : 0 .. Pieces]
NoWriter == [pc |-> "idle", fd |-> NoInode, at |-> 0]

Whole == 1 .. Pieces

BlobsInit ==
  /\ path = NoInode /\ tmp = NoInode
  /\ data = [i \in Inodes |-> {}]
  /\ wr = [w \in Writers |-> NoWriter]
  /\ overlapped = FALSE /\ abandoned = {}

In(w, pc) == wr[w].pc = pc
Ends(w, pc) == wr' = [wr EXCEPT ![w] = [NoWriter EXCEPT !.pc = pc]]

-----------------------------------------------------------------------------
(* PutBlob.                                                                *)

(* A wrapper that has an output to store calls PutBlob, and goes on when   *)
(* it has returned.                                                        *)
Call(w) ==
  /\ In(w, "idle")
  /\ Ends(w, "stat")
  /\ UNCHANGED <<path, tmp, data, overlapped, abandoned>>
Returned(w) == wr[w].pc \in {"done", "raced", "failed"}
Leave(w) ==
  /\ Returned(w)
  /\ Ends(w, "idle")
  /\ UNCHANGED <<path, tmp, data, overlapped, abandoned>>

(* os.Stat: a blob that exists is taken to be the output.                  *)
Stat(w) ==
  /\ In(w, "stat")
  /\ Ends(w, IF path = NoInode THEN "open" ELSE "done")
  /\ UNCHANGED <<path, tmp, data, overlapped, abandoned>>

(* os.WriteFile opens the temporary file with O_CREATE and O_TRUNC.        *)
Opened(w, i) ==
  /\ wr' = [wr EXCEPT ![w] = [pc |-> "write", fd |-> i, at |-> 0]]
  /\ data' = [data EXCEPT ![i] = {}]
  /\ tmp' = i
  /\ overlapped' = (overlapped \/ \E v \in Writers \ {w} : In(v, "write"))
  /\ abandoned' = abandoned \ {i}
  /\ UNCHANGED path
Unused(i) == i # path /\ i # tmp /\ \A v \in Writers : wr[v].fd # i
Open(w) ==
  /\ In(w, "open")
  /\ \/ tmp # NoInode /\ Opened(w, tmp)
     \/ tmp = NoInode /\ \E i \in Inodes : Unused(i) /\ Opened(w, i)

Write(w) ==
  /\ In(w, "write") /\ wr[w].at < Pieces
  /\ data' = [data EXCEPT ![wr[w].fd] = @ \cup {wr[w].at + 1}]
  /\ wr' = [wr EXCEPT ![w].at = @ + 1]
  /\ UNCHANGED <<path, tmp, overlapped, abandoned>>

Rename_Early(w) ==
  /\ In(w, "write") /\ wr[w].at + 1 >= Pieces /\ tmp # NoInode
  /\ path' = tmp /\ tmp' = NoInode
  /\ Ends(w, "done")
  /\ UNCHANGED <<data, overlapped, abandoned>>

Rename_Links(w) ==
  /\ In(w, "write") /\ wr[w].at = Pieces /\ tmp # NoInode
  /\ path' = tmp
  /\ Ends(w, "done")
  /\ UNCHANGED <<tmp, data, overlapped, abandoned>>

(* os.Rename moves whatever the temporary name refers to by now.           *)
Rename(w) ==
  /\ In(w, "write") /\ wr[w].at = Pieces
  /\ \/ /\ tmp # NoInode
        /\ path' = tmp /\ tmp' = NoInode
        /\ Ends(w, "done")
     \/ /\ tmp = NoInode
        /\ Ends(w, "raced")
        /\ UNCHANGED <<path, tmp>>
  /\ UNCHANGED <<data, overlapped, abandoned>>

Unfinished(w) == IF In(w, "write") /\ wr[w].at < Pieces THEN {wr[w].fd} ELSE {}

WriteFails_RemovesTmp(w) ==
  /\ "full" \in Faults /\ wr[w].pc \in {"open", "write"}
  /\ abandoned' = abandoned \cup Unfinished(w)
  /\ tmp' = NoInode
  /\ Ends(w, "failed")
  /\ UNCHANGED <<path, data, overlapped>>

WriteFails_Renames(w) ==
  /\ "full" \in Faults /\ wr[w].pc \in {"open", "write"}
  /\ abandoned' = abandoned \cup Unfinished(w)
  /\ path' = IF tmp # NoInode THEN tmp ELSE path
  /\ tmp' = NoInode
  /\ Ends(w, "failed")
  /\ UNCHANGED <<data, overlapped>>

(* The directory cannot be made, the file cannot be opened, or the disk is *)
(* full: PutBlob returns the error and leaves the temporary file.          *)
WriteFails(w) ==
  /\ "full" \in Faults /\ wr[w].pc \in {"open", "write"}
  /\ abandoned' = abandoned \cup Unfinished(w)
  /\ Ends(w, "failed")
  /\ UNCHANGED <<path, tmp, data, overlapped>>

(* The wrapper is killed.                                                  *)
Die(w) ==
  /\ "die" \in Faults /\ wr[w].pc \in {"stat", "open", "write"}
  /\ abandoned' = abandoned \cup Unfinished(w)
  /\ Ends(w, "idle")
  /\ UNCHANGED <<path, tmp, data, overlapped>>

BlobsNext ==
  \E w \in Writers :
    \/ Call(w) \/ Stat(w) \/ Open(w) \/ Write(w) \/ Rename(w) \/ WriteFails(w)
    \/ Leave(w) \/ Die(w)

BlobsSpec == BlobsInit /\ [][BlobsNext]_blobVars

-----------------------------------------------------------------------------
(* Properties.                                                             *)

(* The shape of the state: a descriptor is open exactly while its writer   *)
(* writes, the two names never refer to one inode.                         *)
BlobsTypeOK ==
  /\ path \in Inodes \cup {NoInode} /\ tmp \in Inodes \cup {NoInode}
  /\ path # NoInode => path # tmp
  /\ data \in [Inodes -> SUBSET Whole]
  /\ wr \in [Writers -> WriterState]
  /\ \A w \in Writers : wr[w].fd # NoInode <=> In(w, "write")
  /\ overlapped \in BOOLEAN
  /\ abandoned \subseteq Inodes

(* As long as no two writers are inside the temporary file at once, a      *)
(* reader never sees a partial blob: killed writers, full disks and the    *)
(* temporary files they leave do no harm.                                  *)
WholeUnlessOverlapped == path # NoInode /\ ~overlapped => data[path] = Whole

(* Writers that overlap can make a partial blob visible, even in the place *)
(* of a whole one, but it is only a matter of time: each piece it lacks is *)
(* still to be written by a writer that has it open.  Only a writer that   *)
(* dies or fails meanwhile leaves it partial, and then for good, since     *)
(* every later PutBlob finds that the blob exists.                         *)
PartialIsBeingWritten ==
  path # NoInode /\ path \notin abandoned =>
    \A p \in Whole \ data[path] :
      \E w \in Writers : In(w, "write") /\ wr[w].fd = path /\ wr[w].at < p

(* A writer that loses the race for the rename loses it to a blob that is  *)
(* there: its record is refused the index, but not for want of its output. *)
LoserFindsBlob == \A w \in Writers : In(w, "raced") => path # NoInode

(* A reader never sees a partial blob, says PutBlob's comment.  It does    *)
(* not hold when two writers share the temporary file.                     *)
NeverPartial == path # NoInode => data[path] = Whole
=============================================================================
