----------------------------- MODULE ImageFile -----------------------------
(***************************************************************************)
(* writeImageFile (main.c) up to the store in lastImage, system call by    *)
(* system call.  A file has a name in the directory and contents of its    *)
(* own, which outlive the name while somebody has them open or mapped.     *)
(* The web server of the README opens the names and reads the files at any *)
(* time; the adapter may be killed between any two steps (a full disk, for *)
(* one, ends it in the memcpy) and be started again in the same directory. *)
(*                                                                         *)
(* Contents are blocks that hold a part of an image, or zeros.  The number *)
(* of an image, which is that of the call that writes it, also names the   *)
(* file it creates.                                                        *)
(***************************************************************************)
EXTENDS Integers, Sequences

CONSTANTS
  Cameras,   \* entries of lastImage, and names of files
  Sizes,     \* of images, in blocks
  MaxImages, \* calls of writeImageFile
  Readers    \* requests to the web server

ASSUME SizesAssumption == Sizes \subseteq Nat \ {0} /\ MaxImages \in Nat

Images == 1 .. MaxImages
Zeros == 0
None == 0
NoEntry == [data |-> None, size |-> 0]

VARIABLES
  dir,     \* file a name leads to
  content, \* of every file
  pc,      \* the next system call
  call,    \* number of the call, of its image and of its file
  cam,     \* cameraIterator
  size,    \* imageSize
  file,    \* what fd and dst stand for
  copied,  \* blocks memcpy has copied
  fds,     \* files the adapter has a descriptor of
  mapped,  \* files it has mapped
  table,   \* globals.lastImage
  latest,  \* the last call for each entry
  failed,  \* calls that returned false
  handle,  \* file a reader has open
  got      \* what it has read of it

localVars == <<call, cam, size, file, copied>>
readerVars == <<handle, got>>
vars == <<dir, content, pc, call, cam, size, file, copied, fds, mapped, table,
          latest, failed, handle, got>>

Init ==
  /\ dir = [c \in Cameras |-> None]
  /\ content = [i \in Images |-> << >>]
  /\ pc = "idle" /\ call = 0 /\ cam \in Cameras /\ size = 0 /\ file = None /\ copied = 0
  /\ fds = {} /\ mapped = {}
  /\ table = [c \in Cameras |-> NoEntry]
  /\ latest = [c \in Cameras |-> None] /\ failed = {}
  /\ handle = [r \in Readers |-> None] /\ got = [r \in Readers |-> << >>]

-----------------------------------------------------------------------------
(* The call.                                                               *)

Start(c, s) ==
  /\ pc = "idle" /\ call < MaxImages
  /\ call' = call + 1 /\ cam' = c /\ size' = s /\ file' = None /\ copied' = 0
  /\ pc' = "unlink"
  /\ UNCHANGED <<dir, content, fds, mapped, table, latest, failed, readerVars>>

Return(ok) ==
  /\ pc' = "idle"
  /\ latest' = [latest EXCEPT ![cam] = call]
  /\ failed' = IF ok THEN failed ELSE failed \cup {call}
  /\ UNCHANGED <<localVars, readerVars>>

(* A step of the call that goes on with the next system call.              *)
At(from, to) ==
  /\ pc = from /\ pc' = to
  /\ UNCHANGED <<call, cam, size, table, latest, failed, readerVars>>

(* Mutant: the file is written over.                                       *)
UnlinkNothing ==
  /\ At("unlink", "open")
  /\ UNCHANGED <<dir, content, file, copied, fds, mapped>>

(* That the file did not exist is no problem.                              *)
Unlink ==
  /\ At("unlink", "open")
  /\ dir' = [dir EXCEPT ![cam] = None]
  /\ UNCHANGED <<content, file, copied, fds, mapped>>

(* O_CREAT without O_EXCL or O_TRUNC.                                      *)
Open ==
  /\ At("open", "ftruncate")
  /\ file' = IF dir[cam] = None THEN call ELSE dir[cam]
  /\ dir' = [dir EXCEPT ![cam] = file']
  /\ fds' = fds \cup {file'}
  /\ UNCHANGED <<content, copied, mapped>>

(* Mutant: one block too few.                                              *)
FtruncateShort ==
  /\ At("ftruncate", "mmap")
  /\ content' = [content EXCEPT ![file] =
       [j \in 1 .. size - 1 |-> IF j <= Len(@) THEN @[j] ELSE Zeros]]
  /\ UNCHANGED <<dir, file, copied, fds, mapped>>

Ftruncate ==
  /\ At("ftruncate", "mmap")
  /\ content' = [content EXCEPT ![file] =
       [j \in 1 .. size |-> IF j <= Len(@) THEN @[j] ELSE Zeros]]
  /\ UNCHANGED <<dir, file, copied, fds, mapped>>

(* Mutant: the old image makes room as soon as the new one is mapped.      *)
MmapForOld ==
  /\ At("mmap", "close")
  /\ mapped' = (mapped \cup {file}) \ {table[cam].data}
  /\ UNCHANGED <<dir, content, file, copied, fds>>

Mmap ==
  /\ At("mmap", "close")
  /\ mapped' = mapped \cup {file}
  /\ UNCHANGED <<dir, content, file, copied, fds>>

Close ==
  /\ At("close", "copy")
  /\ fds' = fds \ {file}
  /\ UNCHANGED <<dir, content, file, copied, mapped>>

(* memcpy into the file, which the web server sees at once.                *)
CopyBlock ==
  /\ At("copy", IF copied + 1 = size THEN "store" ELSE "copy")
  /\ content' = [content EXCEPT ![file][copied + 1] = call]
  /\ copied' = copied + 1
  /\ UNCHANGED <<dir, file, fds, mapped>>

(* Mutant: the old image stays mapped.                                     *)
StoreKeepsOld ==
  /\ pc = "store"
  /\ table' = [table EXCEPT ![cam] = [data |-> file, size |-> size]]
  /\ Return(TRUE)
  /\ UNCHANGED <<dir, content, fds, mapped>>

(* The old image, if any, is unmapped, and the new one is stored.          *)
Store ==
  /\ pc = "store"
  /\ mapped' = mapped \ {table[cam].data}
  /\ table' = [table EXCEPT ![cam] = [data |-> file, size |-> size]]
  /\ Return(TRUE)
  /\ UNCHANGED <<dir, content, fds>>

(* Mutant: a failing munmap is only logged, and the store left out.        *)
MunmapFailsLogged ==
  /\ pc = "store" /\ table[cam] # NoEntry
  /\ Return(TRUE)
  /\ UNCHANGED <<dir, content, fds, mapped, table>>

MunmapFails ==
  /\ pc = "store" /\ table[cam] # NoEntry
  /\ Return(FALSE)
  /\ UNCHANGED <<dir, content, fds, mapped, table>>

(* unlink (for another reason than ENOENT), open, ftruncate or mmap fails: *)
(* the call returns at once, with the descriptor open if there is one.     *)
CallFails ==
  /\ pc \in {"unlink", "open", "ftruncate", "mmap"}
  /\ Return(FALSE)
  /\ UNCHANGED <<dir, content, fds, mapped, table>>

(* The mapping stays, and whether the descriptor does is not specified.    *)
CloseFails ==
  /\ pc = "close"
  /\ fds' \in {fds, fds \ {file}}
  /\ Return(FALSE)
  /\ UNCHANGED <<dir, content, mapped, table>>

-----------------------------------------------------------------------------
(* The adapter is killed and started again: the files are what remains.    *)
Crash ==
  /\ pc' = "idle" /\ fds' = {} /\ mapped' = {}
  /\ table' = [c \in Cameras |-> NoEntry]
  /\ latest' = [c \in Cameras |-> None] /\ failed' = {}
  /\ UNCHANGED <<dir, content, localVars, readerVars>>

(* The web server.                                                         *)
AdapterUnchanged ==
  UNCHANGED <<dir, content, pc, localVars, fds, mapped, table, latest, failed>>

ReaderOpens(r, c) ==
  /\ handle[r] = None /\ dir[c] # None
  /\ handle' = [handle EXCEPT ![r] = dir[c]]
  /\ AdapterUnchanged /\ UNCHANGED got

ReaderReads(r) ==
  /\ handle[r] # None /\ Len(got[r]) < Len(content[handle[r]])
  /\ got' = [got EXCEPT ![r] = Append(@, content[handle[r]][Len(@) + 1])]
  /\ AdapterUnchanged /\ UNCHANGED handle

ReaderCloses(r) ==
  /\ handle[r] # None
  /\ handle' = [handle EXCEPT ![r] = None] /\ got' = [got EXCEPT ![r] = << >>]
  /\ AdapterUnchanged

-----------------------------------------------------------------------------
WriteImageFile ==
  \/ \E c \in Cameras, s \in Sizes : Start(c, s)
  \/ Unlink \/ Open \/ Ftruncate \/ Mmap \/ Close \/ CopyBlock \/ Store
  \/ CallFails \/ CloseFails \/ MunmapFails

WebServer ==
  \E r \in Readers :
    \/ \E c \in Cameras : ReaderOpens(r, c)
    \/ ReaderReads(r) \/ ReaderCloses(r)

Next == WriteImageFile \/ Crash \/ WebServer

Spec == Init /\ [][Next]_vars

-----------------------------------------------------------------------------
Files == Images \cup {None}
Blocks == Images \cup {Zeros}

(* Every variable stays in its type: in particular memcpy writes inside of *)
(* the file it has mapped (a block past its end would end the adapter).    *)
TypeOK ==
  /\ dir \in [Cameras -> Files]
  /\ content \in [Images -> Seq(Blocks)]
  /\ pc \in {"idle", "unlink", "open", "ftruncate", "mmap", "close", "copy", "store"}
  /\ call \in 0 .. MaxImages /\ cam \in Cameras /\ size \in Sizes \cup {0}
  /\ file \in Files /\ copied \in 0 .. size
  /\ pc = "copy" => file # None /\ copied < Len(content[file])
  /\ fds \subseteq Images /\ mapped \subseteq Images
  /\ table \in [Cameras -> [data : Files, size : Sizes \cup {0}]]
  /\ latest \in [Cameras -> 0 .. MaxImages] /\ failed \subseteq Images
  /\ handle \in [Readers -> Files] /\ got \in [Readers -> Seq(Blocks)]

Whole(i) == content[i] # << >> /\ \A j \in DOMAIN content[i] : content[i][j] = i

(* Whatever step of whatever call failed: an image the table names is      *)
(* mapped and whole when a request is answered with it (sendJpeg runs      *)
(* between calls).                                                         *)
TableIsReadable ==
  pc = "idle" =>
    \A c \in Cameras : table[c] # NoEntry =>
      /\ table[c].data \in mapped
      /\ Whole(table[c].data) /\ Len(content[table[c].data]) = table[c].size

(* After a call that returned true the web server and the SCGI server have *)
(* the same image.                                                         *)
FileIsTable ==
  pc = "idle" =>
    \A c \in Cameras : latest[c] # None /\ latest[c] \notin failed =>
      dir[c] = latest[c] /\ table[c].data = latest[c]

(* Only calls that failed leave a descriptor open, or a mapping that the   *)
(* table does not name, and each of its own file only.                     *)
OnlyFailuresLeak ==
  pc = "idle" =>
    /\ fds \subseteq failed
    /\ mapped \ {table[c].data : c \in Cameras} \subseteq failed

(* A reader may get zeros in place of a part of an image that is being     *)
(* written, but never parts of two images.                                 *)
ReadersGetOneImage ==
  \A r \in Readers : \A j \in DOMAIN got[r] : got[r][j] \in {Zeros, handle[r]}

(* The file of a whole image never changes again: a web server that has it *)
(* open keeps it.  (The adapter's own mapping of it ends with the next     *)
(* image of the camera.)                                                   *)
WholeImagesStay ==
  [][\A i \in Images : Whole(i) => content'[i] = content[i]]_vars

(* What a reply with an entry would read: the memory that the table names, *)
(* as far as it is mapped and backed by the file.                          *)
Fault == -1

View ==
  [c \in Cameras |->
     IF table[c] = NoEntry THEN << >>
     ELSE [j \in 1 .. table[c].size |->
             IF table[c].data \in mapped /\ j <= Len(content[table[c].data])
             THEN content[table[c].data][j] ELSE Fault]]

WholeImages == {[j \in 1 .. s |-> i] : i \in Images, s \in Sizes}

TableView == INSTANCE ImageStore WITH Pictures <- WholeImages, Nothing <- << >>, shown <- View

(* Seen through the table, every system call and every failure is one      *)
(* replacement of a whole image by a whole new one, or nothing at all: the *)
(* atomic store that the event loop relies on.                             *)
ImplementsStore == TableView!Spec
=============================================================================
