-------------------------- MODULE ImageFileProofs --------------------------
(***************************************************************************)
(* Proofs about ImageFile for any cameras, sizes of images, number of      *)
(* calls and readers.                                                      *)
(***************************************************************************)
EXTENDS ImageFile, TLAPS

(* The properties speak of the moments between calls.  What makes them     *)
(* true is that each call works on a file of its own, which nothing refers *)
(* to before open has created it.                                          *)

Created == IF pc \in {"unlink", "open"} THEN 1 .. (call - 1) ELSE 1 .. call

(* Calls that have returned, as long as one runs.                          *)
Ended == IF pc = "idle" THEN 1 .. call ELSE 1 .. (call - 1)

OnlyCreatedFiles ==
  /\ \A c \in Cameras : dir[c] \in Created \cup {None}
  /\ \A c \in Cameras : c # cam => dir[c] \in Ended \cup {None}
  /\ \A i \in Images : content[i] # << >> => i \in Created
  /\ fds \subseteq Created /\ mapped \subseteq Created
  /\ \A r \in Readers : handle[r] \in Created \cup {None}

OnlyEndedCalls ==
  /\ failed \subseteq Ended
  /\ \A c \in Cameras : latest[c] \in Ended \cup {None}
  /\ \A c \in Cameras : table[c].data \in Ended \cup {None}

(* The file the call works on.                                             *)
CallInv ==
  /\ pc # "idle" => call \in Images /\ size \in Sizes
  /\ pc = "open" => dir[cam] = None
  /\ pc \in {"ftruncate", "mmap", "close", "copy", "store"} => file = call /\ dir[cam] = call
  /\ pc \in {"unlink", "open", "ftruncate", "mmap", "close"} => copied = 0
  /\ pc = "ftruncate" => content[call] = << >>
  /\ pc \in {"mmap", "close", "copy", "store"} =>
       /\ Len(content[call]) = size
       /\ \A j \in 1 .. size : content[call][j] = IF j <= copied THEN call ELSE Zeros
  /\ pc \in {"close", "copy", "store"} => call \in mapped
  /\ pc = "copy" => copied < size
  /\ pc = "store" => copied = size

(* A file holds nothing but its own image.                                 *)
ContentInv ==
  \A i \in Images : \A j \in DOMAIN content[i] : content[i][j] \in {Zeros, i}

(* TableIsReadable at every moment, and no image is under two entries.     *)
TableInv ==
  /\ \A c \in Cameras : table[c] # NoEntry =>
       /\ table[c].data \in mapped
       /\ Whole(table[c].data) /\ Len(content[table[c].data]) = table[c].size
  /\ \A c, d \in Cameras :
       table[c].data = table[d].data /\ table[c].data # None => c = d

(* FileIsTable for the entries that no call is changing.                   *)
FileInv ==
  \A c \in Cameras :
    (pc = "idle" \/ c # cam) /\ latest[c] # None /\ latest[c] \notin failed =>
      dir[c] = latest[c] /\ table[c].data = latest[c]

LeakInv ==
  /\ \A i \in fds :
       i \in failed \/ (i = call /\ pc \in {"ftruncate", "mmap", "close"})
  /\ \A i \in mapped :
       \/ i \in failed \/ (i = call /\ pc \in {"close", "copy", "store"})
       \/ \E c \in Cameras : table[c].data = i

ReadInv ==
  \A r \in Readers :
    /\ handle[r] = None => got[r] = << >>
    /\ \A j \in DOMAIN got[r] : got[r][j] \in {Zeros, handle[r]}

FilesInv ==
  /\ OnlyCreatedFiles /\ OnlyEndedCalls /\ CallInv /\ ContentInv
  /\ TableInv /\ FileInv /\ LeakInv /\ ReadInv

(* Every step keeps the types. CopyBlock writes a block that the file      *)
(* has, because ftruncate gave it its size.                                *)
LEMMA TypeOKStep == TypeOK /\ FilesInv /\ [Next]_vars => TypeOK'
<1> SUFFICES ASSUME TypeOK, FilesInv, [Next]_vars PROVE TypeOK'
  OBVIOUS
<1> USE SizesAssumption DEF FilesInv, TypeOK, Images, Files, Blocks, None, Zeros
<1>1. ASSUME NEW c \in Cameras, NEW s \in Sizes, Start(c, s) PROVE TypeOK'
  BY SMTT(20), <1>1 DEF Start, readerVars
<1>2. CASE Unlink
  BY <1>2 DEF Unlink, At, readerVars
<1>3. CASE Open
  BY <1>3 DEF Open, At, readerVars, CallInv
<1>4. CASE Ftruncate
  <2>1. file \in Images /\ size \in Nat /\ file = call
    BY <1>4 DEF Ftruncate, At, CallInv
  <2>2. [j \in 1 .. size |-> IF j <= Len(content[file]) THEN content[file][j] ELSE Zeros]
          \in Seq(Blocks)
    BY <2>1
  <2>3. content' \in [Images -> Seq(Blocks)]
    BY <1>4, <2>1, <2>2 DEF Ftruncate
  <2> QED BY <1>4, <2>3 DEF Ftruncate, At, readerVars
<1>5. CASE Mmap
  BY <1>5 DEF Mmap, At, readerVars, CallInv
<1>6. CASE Close
  <2>1. file = call /\ call \in Images /\ Len(content[call]) = size /\ copied = 0 /\ size > 0
    BY <1>6 DEF Close, At, CallInv
  <2>2. /\ file' = file /\ copied' = copied /\ content' = content /\ size' = size
        /\ fds' = fds \ {file} /\ pc' = "copy"
    BY <1>6 DEF Close, At
  <2>3. /\ fds' \subseteq Images /\ copied' \in 0 .. size'
        /\ pc' = "copy" => file' # None /\ copied' < Len(content'[file'])
    BY <2>1, <2>2
  <2> QED BY <1>6, <2>2, <2>3 DEF Close, At, readerVars
<1>7. CASE CopyBlock
  <2>1. /\ file = call /\ call \in Images /\ size \in Nat
        /\ Len(content[call]) = size /\ copied < size
    BY <1>7 DEF CopyBlock, At, CallInv
  <2>2. content[call] \in Seq(Blocks) /\ copied + 1 \in 1 .. Len(content[call])
    BY <2>1
  <2>3. content' = [content EXCEPT ![call] = [content[call] EXCEPT ![copied + 1] = call]]
    BY <1>7, <2>1 DEF CopyBlock
  <2>4. /\ [content[call] EXCEPT ![copied + 1] = call] \in Seq(Blocks)
        /\ Len([content[call] EXCEPT ![copied + 1] = call]) = size
    BY <2>1, <2>2
  <2>5. content' \in [Images -> Seq(Blocks)] /\ Len(content'[call]) = size
    BY <2>1, <2>3, <2>4
  <2> QED BY SMTT(20), <1>7, <2>1, <2>5 DEF CopyBlock, At, readerVars
<1>8. CASE Store
  BY <1>8 DEF Store, Return, localVars, readerVars
<1>9. CASE CallFails
  BY <1>9 DEF CallFails, Return, localVars, readerVars, CallInv
<1>10. CASE CloseFails
  BY <1>10 DEF CloseFails, Return, localVars, readerVars, CallInv
<1>11. CASE MunmapFails
  BY <1>11 DEF MunmapFails, Return, localVars, readerVars, CallInv
<1>12. CASE Crash
  BY <1>12 DEF Crash, localVars, readerVars, NoEntry
<1>13. ASSUME NEW r \in Readers, NEW c \in Cameras, ReaderOpens(r, c) PROVE TypeOK'
  BY <1>13 DEF ReaderOpens, AdapterUnchanged, localVars
<1>14. ASSUME NEW r \in Readers, ReaderReads(r) PROVE TypeOK'
  <2>1. /\ got' = [got EXCEPT ![r] = Append(@, content[handle[r]][Len(@) + 1])]
        /\ handle[r] # None /\ Len(got[r]) < Len(content[handle[r]])
        /\ UNCHANGED <<dir, content, pc, call, cam, size, file, copied, fds, mapped,
                       table, latest, failed, handle>>
    BY <1>14 DEF ReaderReads, AdapterUnchanged, localVars
  <2>2. handle[r] \in Images /\ got[r] \in Seq(Blocks)
    BY <2>1 DEF Files
  <2>3. content[handle[r]] \in Seq(Blocks)
    BY <2>2
  <2>4. Len(got[r]) + 1 \in 1 .. Len(content[handle[r]])
    BY <2>1, <2>2, <2>3
  <2>5. content[handle[r]][Len(got[r]) + 1] \in Blocks
    BY <2>3, <2>4
  <2>6. got' \in [Readers -> Seq(Blocks)]
    BY <2>1, <2>2, <2>5
  <2> QED BY <2>1, <2>6
<1>15. ASSUME NEW r \in Readers, ReaderCloses(r) PROVE TypeOK'
  BY SMTT(20), <1>15 DEF ReaderCloses, AdapterUnchanged, localVars
<1>16. CASE UNCHANGED vars
  BY <1>16 DEF vars
<1> QED
  BY <1>1, <1>2, <1>3, <1>4, <1>5, <1>6, <1>7, <1>8, <1>9, <1>10, <1>11, <1>12,
     <1>13, <1>14, <1>15, <1>16 DEF Next, WriteImageFile, WebServer

(* Nothing refers to a file that no open has created; while a call runs,   *)
(* only its own name leads to its file.                                    *)
LEMMA OnlyCreatedFilesStep == TypeOK /\ FilesInv /\ [Next]_vars => OnlyCreatedFiles'
<1> SUFFICES ASSUME TypeOK, FilesInv, [Next]_vars PROVE OnlyCreatedFiles'
  OBVIOUS
<1> USE SizesAssumption DEF FilesInv, TypeOK, Images, Files, Blocks, None, Zeros
<1>1. ASSUME NEW c \in Cameras, NEW s \in Sizes, Start(c, s) PROVE OnlyCreatedFiles'
  BY <1>1 DEF Start, readerVars, OnlyCreatedFiles, OnlyEndedCalls, CallInv, Created,
     Ended
<1>2. CASE Unlink
  BY <1>2 DEF Unlink, At, readerVars, OnlyCreatedFiles, OnlyEndedCalls, CallInv,
     Created, Ended
<1>3. CASE Open
  <2>1. file' = call /\ dir' = [dir EXCEPT ![cam] = call] /\ fds' = fds \cup {call}
    BY <1>3 DEF Open, At, CallInv
  <2>2. pc = "open" /\ pc' = "ftruncate" /\ UNCHANGED <<call, cam, content, mapped, handle>>
    BY <1>3 DEF Open, At, readerVars
  <2>3. call \in Images
    BY <2>2 DEF CallInv
  <2> QED BY SMTT(20), <2>1, <2>2, <2>3 DEF OnlyCreatedFiles, Created, Ended
<1>4. CASE Ftruncate
  BY <1>4 DEF Ftruncate, At, readerVars, OnlyCreatedFiles, OnlyEndedCalls, CallInv,
     Created, Ended
<1>5. CASE Mmap
  BY <1>5 DEF Mmap, At, readerVars, OnlyCreatedFiles, OnlyEndedCalls, CallInv,
     Created, Ended
<1>6. CASE Close
  BY <1>6 DEF Close, At, readerVars, OnlyCreatedFiles, OnlyEndedCalls, CallInv,
     Created, Ended
<1>7. CASE CopyBlock
  BY <1>7 DEF CopyBlock, At, readerVars, OnlyCreatedFiles, OnlyEndedCalls, CallInv,
     Created, Ended
<1>8. CASE Store
  BY <1>8 DEF Store, Return, localVars, readerVars, OnlyCreatedFiles,
     OnlyEndedCalls, CallInv, Created, Ended
<1>9. CASE CallFails
  <2>1. pc # "idle" /\ pc' = "idle" /\ call \in Images
    BY <1>9 DEF CallFails, Return, CallInv
  <2>2. UNCHANGED <<call, cam, dir, content, fds, mapped, handle>>
    BY <1>9 DEF CallFails, Return, localVars, readerVars
  <2>3. Created \subseteq Created' /\ Ended \subseteq Ended'
    BY <2>1, <2>2 DEF Created, Ended
  <2> QED BY <2>2, <2>3 DEF OnlyCreatedFiles
<1>10. CASE CloseFails
  BY <1>10 DEF CloseFails, Return, localVars, readerVars, OnlyCreatedFiles,
     OnlyEndedCalls, CallInv, Created, Ended
<1>11. CASE MunmapFails
  BY <1>11 DEF MunmapFails, Return, localVars, readerVars, OnlyCreatedFiles,
     OnlyEndedCalls, CallInv, Created, Ended
<1>12. CASE Crash
  BY <1>12 DEF Crash, localVars, readerVars, NoEntry, OnlyCreatedFiles,
     OnlyEndedCalls, CallInv, Created, Ended
<1>13. ASSUME NEW r \in Readers, NEW c \in Cameras, ReaderOpens(r, c) PROVE
     OnlyCreatedFiles'
  BY SMTT(20), <1>13 DEF ReaderOpens, AdapterUnchanged, localVars, OnlyCreatedFiles,
     OnlyEndedCalls, CallInv, Created, Ended
<1>14. ASSUME NEW r \in Readers, ReaderReads(r) PROVE OnlyCreatedFiles'
  BY <1>14 DEF ReaderReads, AdapterUnchanged, localVars, OnlyCreatedFiles,
     OnlyEndedCalls, CallInv, Created, Ended
<1>15. ASSUME NEW r \in Readers, ReaderCloses(r) PROVE OnlyCreatedFiles'
  BY <1>15 DEF ReaderCloses, AdapterUnchanged, localVars, OnlyCreatedFiles,
     OnlyEndedCalls, CallInv, Created, Ended
<1>16. CASE UNCHANGED vars
  BY <1>16 DEF vars, OnlyCreatedFiles, OnlyEndedCalls, CallInv, Created, Ended
<1> QED
  BY <1>1, <1>2, <1>3, <1>4, <1>5, <1>6, <1>7, <1>8, <1>9, <1>10, <1>11, <1>12,
     <1>13, <1>14, <1>15, <1>16 DEF Next, WriteImageFile, WebServer

(* While a call runs, no entry of the table and no record of an earlier    *)
(* call refers to it.                                                      *)
LEMMA OnlyEndedCallsStep == TypeOK /\ FilesInv /\ [Next]_vars => OnlyEndedCalls'
<1> SUFFICES ASSUME TypeOK, FilesInv, [Next]_vars PROVE OnlyEndedCalls'
  OBVIOUS
<1> USE SizesAssumption DEF FilesInv, TypeOK, Images, Files, Blocks, None, Zeros
<1>1. ASSUME NEW c \in Cameras, NEW s \in Sizes, Start(c, s) PROVE OnlyEndedCalls'
  BY <1>1 DEF Start, readerVars, OnlyEndedCalls, Ended, CallInv
<1>2. CASE Unlink
  BY <1>2 DEF Unlink, At, readerVars, OnlyEndedCalls, Ended, CallInv
<1>3. CASE Open
  BY <1>3 DEF Open, At, readerVars, OnlyEndedCalls, Ended, CallInv
<1>4. CASE Ftruncate
  BY <1>4 DEF Ftruncate, At, readerVars, OnlyEndedCalls, Ended, CallInv
<1>5. CASE Mmap
  BY <1>5 DEF Mmap, At, readerVars, OnlyEndedCalls, Ended, CallInv
<1>6. CASE Close
  BY <1>6 DEF Close, At, readerVars, OnlyEndedCalls, Ended, CallInv
<1>7. CASE CopyBlock
  BY <1>7 DEF CopyBlock, At, readerVars, OnlyEndedCalls, Ended, CallInv
<1>8. CASE Store
  BY <1>8 DEF Store, Return, localVars, readerVars, OnlyEndedCalls, Ended, CallInv
<1>9. CASE CallFails
  BY <1>9 DEF CallFails, Return, localVars, readerVars, OnlyEndedCalls, Ended, CallInv
<1>10. CASE CloseFails
  BY <1>10 DEF CloseFails, Return, localVars, readerVars, OnlyEndedCalls, Ended,
     CallInv
<1>11. CASE MunmapFails
  BY <1>11 DEF MunmapFails, Return, localVars, readerVars, OnlyEndedCalls, Ended,
     CallInv
<1>12. CASE Crash
  BY <1>12 DEF Crash, localVars, readerVars, NoEntry, OnlyEndedCalls
<1>13. ASSUME NEW r \in Readers, NEW c \in Cameras, ReaderOpens(r, c) PROVE
     OnlyEndedCalls'
  BY <1>13 DEF ReaderOpens, AdapterUnchanged, localVars, OnlyEndedCalls, Ended,
     CallInv
<1>14. ASSUME NEW r \in Readers, ReaderReads(r) PROVE OnlyEndedCalls'
  BY <1>14 DEF ReaderReads, AdapterUnchanged, localVars, OnlyEndedCalls, Ended,
     CallInv
<1>15. ASSUME NEW r \in Readers, ReaderCloses(r) PROVE OnlyEndedCalls'
  BY <1>15 DEF ReaderCloses, AdapterUnchanged, localVars, OnlyEndedCalls, Ended,
     CallInv
<1>16. CASE UNCHANGED vars
  BY <1>16 DEF vars, OnlyEndedCalls, Ended, CallInv
<1> QED
  BY <1>1, <1>2, <1>3, <1>4, <1>5, <1>6, <1>7, <1>8, <1>9, <1>10, <1>11, <1>12,
     <1>13, <1>14, <1>15, <1>16 DEF Next, WriteImageFile, WebServer

(* Along the call: unlink makes the name free, so open creates a file; it  *)
(* is empty, gets zeros and then the image from front to back.             *)
LEMMA CallInvStep == TypeOK /\ FilesInv /\ [Next]_vars => CallInv'
<1> SUFFICES ASSUME TypeOK, FilesInv, [Next]_vars PROVE CallInv'
  OBVIOUS
<1> USE SizesAssumption DEF FilesInv, TypeOK, Images, Files, Blocks, None, Zeros
<1>1. ASSUME NEW c \in Cameras, NEW s \in Sizes, Start(c, s) PROVE CallInv'
  BY <1>1 DEF Start, readerVars, CallInv
<1>2. CASE Unlink
  BY <1>2 DEF Unlink, At, readerVars, CallInv
<1>3. CASE Open
  BY <1>3 DEF Open, At, readerVars, CallInv, OnlyCreatedFiles, Created, Ended
<1>4. CASE Ftruncate
  BY <1>4 DEF Ftruncate, At, readerVars, CallInv
<1>5. CASE Mmap
  BY <1>5 DEF Mmap, At, readerVars, CallInv
<1>6. CASE Close
  BY <1>6 DEF Close, At, readerVars, CallInv
<1>7. CASE CopyBlock
  BY <1>7 DEF CopyBlock, At, readerVars, CallInv
<1>8. CASE Store
  BY <1>8 DEF Store, Return, localVars, readerVars, CallInv
<1>9. CASE CallFails
  BY <1>9 DEF CallFails, Return, localVars, readerVars, CallInv
<1>10. CASE CloseFails
  BY <1>10 DEF CloseFails, Return, localVars, readerVars, CallInv
<1>11. CASE MunmapFails
  BY <1>11 DEF MunmapFails, Return, localVars, readerVars, CallInv
<1>12. CASE Crash
  BY <1>12 DEF Crash, localVars, readerVars, NoEntry, CallInv
<1>13. ASSUME NEW r \in Readers, NEW c \in Cameras, ReaderOpens(r, c) PROVE CallInv'
  BY <1>13 DEF ReaderOpens, AdapterUnchanged, localVars, CallInv
<1>14. ASSUME NEW r \in Readers, ReaderReads(r) PROVE CallInv'
  BY <1>14 DEF ReaderReads, AdapterUnchanged, localVars, CallInv
<1>15. ASSUME NEW r \in Readers, ReaderCloses(r) PROVE CallInv'
  BY <1>15 DEF ReaderCloses, AdapterUnchanged, localVars, CallInv
<1>16. CASE UNCHANGED vars
  BY <1>16 DEF vars, CallInv
<1> QED
  BY <1>1, <1>2, <1>3, <1>4, <1>5, <1>6, <1>7, <1>8, <1>9, <1>10, <1>11, <1>12,
     <1>13, <1>14, <1>15, <1>16 DEF Next, WriteImageFile, WebServer

(* Only the call a file was created for writes to it.                      *)
LEMMA ContentInvStep == TypeOK /\ FilesInv /\ [Next]_vars => ContentInv'
<1> SUFFICES ASSUME TypeOK, FilesInv, [Next]_vars PROVE ContentInv'
  OBVIOUS
<1> USE SizesAssumption DEF FilesInv, TypeOK, Images, Files, Blocks, None, Zeros
<1>1. ASSUME NEW c \in Cameras, NEW s \in Sizes, Start(c, s) PROVE ContentInv'
  BY <1>1 DEF Start, readerVars, ContentInv
<1>2. CASE Unlink
  BY <1>2 DEF Unlink, At, readerVars, ContentInv
<1>3. CASE Open
  BY <1>3 DEF Open, At, readerVars, ContentInv
<1>4. CASE Ftruncate
  BY <1>4 DEF Ftruncate, At, readerVars, ContentInv
<1>5. CASE Mmap
  BY <1>5 DEF Mmap, At, readerVars, ContentInv
<1>6. CASE Close
  BY <1>6 DEF Close, At, readerVars, ContentInv
<1>7. CASE CopyBlock
  BY <1>7 DEF CopyBlock, At, readerVars, ContentInv, CallInv
<1>8. CASE Store
  BY <1>8 DEF Store, Return, localVars, readerVars, ContentInv
<1>9. CASE CallFails
  BY <1>9 DEF CallFails, Return, localVars, readerVars, ContentInv
<1>10. CASE CloseFails
  BY <1>10 DEF CloseFails, Return, localVars, readerVars, ContentInv
<1>11. CASE MunmapFails
  BY <1>11 DEF MunmapFails, Return, localVars, readerVars, ContentInv
<1>12. CASE Crash
  BY <1>12 DEF Crash, localVars, readerVars, NoEntry, ContentInv
<1>13. ASSUME NEW r \in Readers, NEW c \in Cameras, ReaderOpens(r, c) PROVE
     ContentInv'
  BY <1>13 DEF ReaderOpens, AdapterUnchanged, localVars, ContentInv
<1>14. ASSUME NEW r \in Readers, ReaderReads(r) PROVE ContentInv'
  BY <1>14 DEF ReaderReads, AdapterUnchanged, localVars, ContentInv
<1>15. ASSUME NEW r \in Readers, ReaderCloses(r) PROVE ContentInv'
  BY <1>15 DEF ReaderCloses, AdapterUnchanged, localVars, ContentInv
<1>16. CASE UNCHANGED vars
  BY <1>16 DEF vars, ContentInv
<1> QED
  BY <1>1, <1>2, <1>3, <1>4, <1>5, <1>6, <1>7, <1>8, <1>9, <1>10, <1>11, <1>12,
     <1>13, <1>14, <1>15, <1>16 DEF Next, WriteImageFile, WebServer

(* What the table names stays mapped and whole: the call works on another  *)
(* file, and only unmaps what it replaces.                                 *)
LEMMA TableInvStep == TypeOK /\ FilesInv /\ [Next]_vars => TableInv'
<1> SUFFICES ASSUME TypeOK, FilesInv, [Next]_vars PROVE TableInv'
  OBVIOUS
<1> USE SizesAssumption DEF FilesInv, TypeOK, Images, Files, Blocks, None, Zeros
<1>1. ASSUME NEW c \in Cameras, NEW s \in Sizes, Start(c, s) PROVE TableInv'
  BY <1>1 DEF Start, readerVars, TableInv, CallInv, OnlyEndedCalls, Ended, Whole,
     NoEntry
<1>2. CASE Unlink
  BY <1>2 DEF Unlink, At, readerVars, TableInv, CallInv, OnlyEndedCalls, Ended,
     Whole, NoEntry
<1>3. CASE Open
  BY <1>3 DEF Open, At, readerVars, TableInv, CallInv, OnlyEndedCalls, Ended, Whole,
     NoEntry
<1>4. CASE Ftruncate
  BY SMTT(20), <1>4 DEF Ftruncate, At, readerVars, TableInv, CallInv, OnlyEndedCalls, Ended,
     Whole, NoEntry
<1>5. CASE Mmap
  BY <1>5 DEF Mmap, At, readerVars, TableInv, CallInv, OnlyEndedCalls, Ended, Whole,
     NoEntry
<1>6. CASE Close
  BY <1>6 DEF Close, At, readerVars, TableInv, CallInv, OnlyEndedCalls, Ended,
     Whole, NoEntry
<1>7. CASE CopyBlock
  BY <1>7 DEF CopyBlock, At, readerVars, TableInv, CallInv, OnlyEndedCalls, Ended,
     Whole, NoEntry
<1>8. CASE Store
  BY SMTT(20), <1>8 DEF Store, Return, localVars, readerVars, TableInv, CallInv,
     OnlyEndedCalls, Ended, Whole, NoEntry
<1>9. CASE CallFails
  BY <1>9 DEF CallFails, Return, localVars, readerVars, TableInv, CallInv,
     OnlyEndedCalls, Ended, Whole, NoEntry
<1>10. CASE CloseFails
  BY <1>10 DEF CloseFails, Return, localVars, readerVars, TableInv, CallInv,
     OnlyEndedCalls, Ended, Whole, NoEntry
<1>11. CASE MunmapFails
  BY <1>11 DEF MunmapFails, Return, localVars, readerVars, TableInv, CallInv,
     OnlyEndedCalls, Ended, Whole, NoEntry
<1>12. CASE Crash
  BY <1>12 DEF Crash, localVars, readerVars, NoEntry, TableInv
<1>13. ASSUME NEW r \in Readers, NEW c \in Cameras, ReaderOpens(r, c) PROVE TableInv'
  BY <1>13 DEF ReaderOpens, AdapterUnchanged, localVars, TableInv, CallInv,
     OnlyEndedCalls, Ended, Whole, NoEntry
<1>14. ASSUME NEW r \in Readers, ReaderReads(r) PROVE TableInv'
  BY <1>14 DEF ReaderReads, AdapterUnchanged, localVars, TableInv, CallInv,
     OnlyEndedCalls, Ended, Whole, NoEntry
<1>15. ASSUME NEW r \in Readers, ReaderCloses(r) PROVE TableInv'
  BY <1>15 DEF ReaderCloses, AdapterUnchanged, localVars, TableInv, CallInv,
     OnlyEndedCalls, Ended, Whole, NoEntry
<1>16. CASE UNCHANGED vars
  BY <1>16 DEF vars, TableInv, CallInv, OnlyEndedCalls, Ended, Whole, NoEntry
<1> QED
  BY <1>1, <1>2, <1>3, <1>4, <1>5, <1>6, <1>7, <1>8, <1>9, <1>10, <1>11, <1>12,
     <1>13, <1>14, <1>15, <1>16 DEF Next, WriteImageFile, WebServer

(* A call touches one name and one entry, and both only lag behind when    *)
(* it fails.                                                               *)
LEMMA FileInvStep == TypeOK /\ FilesInv /\ [Next]_vars => FileInv'
<1> SUFFICES ASSUME TypeOK, FilesInv, [Next]_vars PROVE FileInv'
  OBVIOUS
<1> USE SizesAssumption DEF FilesInv, TypeOK, Images, Files, Blocks, None, Zeros
<1>1. ASSUME NEW c \in Cameras, NEW s \in Sizes, Start(c, s) PROVE FileInv'
  BY <1>1 DEF Start, readerVars, FileInv
<1>2. CASE Unlink
  BY <1>2 DEF Unlink, At, readerVars, FileInv
<1>3. CASE Open
  BY <1>3 DEF Open, At, readerVars, FileInv
<1>4. CASE Ftruncate
  BY <1>4 DEF Ftruncate, At, readerVars, FileInv
<1>5. CASE Mmap
  BY <1>5 DEF Mmap, At, readerVars, FileInv
<1>6. CASE Close
  BY <1>6 DEF Close, At, readerVars, FileInv
<1>7. CASE CopyBlock
  BY <1>7 DEF CopyBlock, At, readerVars, FileInv
<1>8. CASE Store
  BY <1>8 DEF Store, Return, localVars, readerVars, FileInv, CallInv,
     OnlyEndedCalls, Ended
<1>9. CASE CallFails
  BY <1>9 DEF CallFails, Return, localVars, readerVars, FileInv
<1>10. CASE CloseFails
  BY <1>10 DEF CloseFails, Return, localVars, readerVars, FileInv
<1>11. CASE MunmapFails
  BY <1>11 DEF MunmapFails, Return, localVars, readerVars, FileInv
<1>12. CASE Crash
  BY <1>12 DEF Crash, localVars, readerVars, NoEntry, FileInv
<1>13. ASSUME NEW r \in Readers, NEW c \in Cameras, ReaderOpens(r, c) PROVE FileInv'
  BY <1>13 DEF ReaderOpens, AdapterUnchanged, localVars, FileInv
<1>14. ASSUME NEW r \in Readers, ReaderReads(r) PROVE FileInv'
  BY <1>14 DEF ReaderReads, AdapterUnchanged, localVars, FileInv
<1>15. ASSUME NEW r \in Readers, ReaderCloses(r) PROVE FileInv'
  BY <1>15 DEF ReaderCloses, AdapterUnchanged, localVars, FileInv
<1>16. CASE UNCHANGED vars
  BY <1>16 DEF vars, FileInv
<1> QED
  BY <1>1, <1>2, <1>3, <1>4, <1>5, <1>6, <1>7, <1>8, <1>9, <1>10, <1>11, <1>12,
     <1>13, <1>14, <1>15, <1>16 DEF Next, WriteImageFile, WebServer

(* A descriptor or mapping of a call that ended is one that failed, or     *)
(* the table names it.                                                     *)
LEMMA LeakInvStep == TypeOK /\ FilesInv /\ [Next]_vars => LeakInv'
<1> SUFFICES ASSUME TypeOK, FilesInv, [Next]_vars PROVE LeakInv'
  OBVIOUS
<1> USE SizesAssumption DEF FilesInv, TypeOK, Images, Files, Blocks, None, Zeros
<1>1. ASSUME NEW c \in Cameras, NEW s \in Sizes, Start(c, s) PROVE LeakInv'
  BY <1>1 DEF Start, readerVars, LeakInv
<1>2. CASE Unlink
  BY <1>2 DEF Unlink, At, readerVars, LeakInv
<1>3. CASE Open
  BY <1>3 DEF Open, At, readerVars, LeakInv, CallInv
<1>4. CASE Ftruncate
  BY <1>4 DEF Ftruncate, At, readerVars, LeakInv
<1>5. CASE Mmap
  BY <1>5 DEF Mmap, At, readerVars, LeakInv, CallInv
<1>6. CASE Close
  BY <1>6 DEF Close, At, readerVars, LeakInv, CallInv
<1>7. CASE CopyBlock
  BY <1>7 DEF CopyBlock, At, readerVars, LeakInv
<1>8. CASE Store
  BY <1>8 DEF Store, Return, localVars, readerVars, LeakInv, CallInv
<1>9. CASE CallFails
  BY <1>9 DEF CallFails, Return, localVars, readerVars, LeakInv
<1>10. CASE CloseFails
  BY <1>10 DEF CloseFails, Return, localVars, readerVars, LeakInv
<1>11. CASE MunmapFails
  BY <1>11 DEF MunmapFails, Return, localVars, readerVars, LeakInv
<1>12. CASE Crash
  BY <1>12 DEF Crash, localVars, readerVars, NoEntry, LeakInv
<1>13. ASSUME NEW r \in Readers, NEW c \in Cameras, ReaderOpens(r, c) PROVE LeakInv'
  BY <1>13 DEF ReaderOpens, AdapterUnchanged, localVars, LeakInv
<1>14. ASSUME NEW r \in Readers, ReaderReads(r) PROVE LeakInv'
  BY <1>14 DEF ReaderReads, AdapterUnchanged, localVars, LeakInv
<1>15. ASSUME NEW r \in Readers, ReaderCloses(r) PROVE LeakInv'
  BY <1>15 DEF ReaderCloses, AdapterUnchanged, localVars, LeakInv
<1>16. CASE UNCHANGED vars
  BY <1>16 DEF vars, LeakInv
<1> QED
  BY <1>1, <1>2, <1>3, <1>4, <1>5, <1>6, <1>7, <1>8, <1>9, <1>10, <1>11, <1>12,
     <1>13, <1>14, <1>15, <1>16 DEF Next, WriteImageFile, WebServer

(* A reader keeps to the file it opened, whatever becomes of the name.     *)
LEMMA ReadInvStep == TypeOK /\ FilesInv /\ [Next]_vars => ReadInv'
<1> SUFFICES ASSUME TypeOK, FilesInv, [Next]_vars PROVE ReadInv'
  OBVIOUS
<1> USE SizesAssumption DEF FilesInv, TypeOK, Images, Files, Blocks, None, Zeros
<1>1. ASSUME NEW c \in Cameras, NEW s \in Sizes, Start(c, s) PROVE ReadInv'
  BY <1>1 DEF Start, readerVars, ReadInv
<1>2. CASE Unlink
  BY <1>2 DEF Unlink, At, readerVars, ReadInv
<1>3. CASE Open
  BY <1>3 DEF Open, At, readerVars, ReadInv
<1>4. CASE Ftruncate
  BY <1>4 DEF Ftruncate, At, readerVars, ReadInv
<1>5. CASE Mmap
  BY <1>5 DEF Mmap, At, readerVars, ReadInv
<1>6. CASE Close
  BY <1>6 DEF Close, At, readerVars, ReadInv
<1>7. CASE CopyBlock
  BY <1>7 DEF CopyBlock, At, readerVars, ReadInv
<1>8. CASE Store
  BY <1>8 DEF Store, Return, localVars, readerVars, ReadInv
<1>9. CASE CallFails
  BY <1>9 DEF CallFails, Return, localVars, readerVars, ReadInv
<1>10. CASE CloseFails
  BY <1>10 DEF CloseFails, Return, localVars, readerVars, ReadInv
<1>11. CASE MunmapFails
  BY <1>11 DEF MunmapFails, Return, localVars, readerVars, ReadInv
<1>12. CASE Crash
  BY <1>12 DEF Crash, localVars, readerVars, NoEntry, ReadInv
<1>13. ASSUME NEW r \in Readers, NEW c \in Cameras, ReaderOpens(r, c) PROVE ReadInv'
  BY <1>13 DEF ReaderOpens, AdapterUnchanged, localVars, ReadInv
<1>14. ASSUME NEW r \in Readers, ReaderReads(r) PROVE ReadInv'
  <2> DEFINE f == handle[r]
             next == content[f][Len(got[r]) + 1]
  <2>1. f \in Images /\ UNCHANGED handle /\ got' = [got EXCEPT ![r] = Append(got[r], next)]
    BY <1>14 DEF ReaderReads
  <2>2. Len(got[r]) + 1 \in DOMAIN content[f]
    BY <1>14, <2>1 DEF ReaderReads
  <2>3. next \in {Zeros, f}
    BY <2>1, <2>2 DEF ContentInv
  <2>4. \A j \in DOMAIN got'[r] : got'[r][j] \in {Zeros, f}
    BY <2>1, <2>3 DEF ReadInv
  <2> QED BY <2>1, <2>4 DEF ReadInv
<1>15. ASSUME NEW r \in Readers, ReaderCloses(r) PROVE ReadInv'
  BY <1>15 DEF ReaderCloses, AdapterUnchanged, localVars, ReadInv
<1>16. CASE UNCHANGED vars
  BY <1>16 DEF vars, ReadInv
<1> QED
  BY <1>1, <1>2, <1>3, <1>4, <1>5, <1>6, <1>7, <1>8, <1>9, <1>10, <1>11, <1>12,
     <1>13, <1>14, <1>15, <1>16 DEF Next, WriteImageFile, WebServer

-----------------------------------------------------------------------------
LEMMA FilesInit == Init => TypeOK /\ FilesInv
<1> SUFFICES ASSUME Init PROVE TypeOK /\ FilesInv
  OBVIOUS
<1> USE SizesAssumption DEF Init, Images, None, Zeros, NoEntry
<1>1. TypeOK
  BY DEF TypeOK, Files, Blocks
<1>2. OnlyCreatedFiles /\ OnlyEndedCalls /\ CallInv
  BY DEF OnlyCreatedFiles, OnlyEndedCalls, CallInv, Created, Ended
<1>3. ContentInv /\ TableInv /\ FileInv /\ LeakInv /\ ReadInv
  BY DEF ContentInv, TableInv, FileInv, LeakInv, ReadInv
<1> QED BY <1>1, <1>2, <1>3 DEF FilesInv

LEMMA FilesStep == TypeOK /\ FilesInv /\ [Next]_vars => TypeOK' /\ FilesInv'
BY TypeOKStep, OnlyCreatedFilesStep, OnlyEndedCallsStep, CallInvStep, ContentInvStep,
   TableInvStep, FileInvStep, LeakInvStep, ReadInvStep DEF FilesInv

LEMMA FilesCorrect == Spec => [](TypeOK /\ FilesInv)
BY FilesInit, FilesStep, PTL DEF Spec

(* Type correctness: memcpy stays inside of the file it has mapped, for    *)
(* every size and however often the adapter is killed in between.          *)
THEOREM TypeCorrect == Spec => []TypeOK
BY FilesCorrect, PTL

(* Whatever system call of whatever call fails, a request is only answered *)
(* from memory that is mapped and holds one whole image.                   *)
THEOREM RepliesAreReadable == Spec => []TableIsReadable
<1>1. FilesInv => TableIsReadable
  BY DEF FilesInv, TableInv, TableIsReadable
<1> QED BY <1>1, FilesCorrect, PTL

(* After a call that succeeded, file and table show the same image.        *)
THEOREM FileMatchesTable == Spec => []FileIsTable
<1>1. FilesInv => FileIsTable
  BY DEF FilesInv, FileInv, FileIsTable
<1> QED BY <1>1, FilesCorrect, PTL

(* No number of calls that succeed exhausts descriptors or memory.         *)
THEOREM LeaksAreFailures == Spec => []OnlyFailuresLeak
<1>1. FilesInv => OnlyFailuresLeak
  BY DEF FilesInv, LeakInv, OnlyFailuresLeak
<1> QED BY <1>1, FilesCorrect, PTL

(* However slowly the web server reads, and however many images come and   *)
(* go under the name meanwhile, it never gets parts of two of them.        *)
THEOREM OneImagePerRead == Spec => []ReadersGetOneImage
<1>1. FilesInv => ReadersGetOneImage
  BY DEF FilesInv, ReadInv, ReadersGetOneImage
<1> QED BY <1>1, FilesCorrect, PTL

(* The file of a complete image is never written to again.                 *)
THEOREM WholeImagesKept == Spec => WholeImagesStay
<1>1. ASSUME TypeOK, FilesInv, [Next]_vars, NEW i \in Images, Whole(i)
      PROVE  content'[i] = content[i]
  <2> USE SizesAssumption DEF Images, Zeros
  <2>1. CASE Ftruncate
    <3>1. file = call /\ content[call] = << >>
      BY <1>1, <2>1 DEF Ftruncate, At, FilesInv, CallInv
    <3>2. i # call
      BY <1>1, <3>1 DEF Whole
    <3> QED BY <1>1, <2>1, <3>1, <3>2 DEF Ftruncate, TypeOK
  <2>2. CASE CopyBlock
    <3>1. /\ file = call /\ call \in Images /\ Len(content[call]) = size
          /\ copied \in Nat /\ copied < size /\ content[call][copied + 1] = Zeros
      BY <1>1, <2>2 DEF CopyBlock, At, FilesInv, CallInv, TypeOK
    <3>2. copied + 1 \in DOMAIN content[call]
      BY <1>1, <3>1 DEF TypeOK
    <3>3. i # call
      BY <1>1, <3>1, <3>2 DEF Whole
    <3> QED BY <1>1, <2>2, <3>1, <3>3 DEF CopyBlock, TypeOK
  <2>3. CASE ~Ftruncate /\ ~CopyBlock
    <3>1. UNCHANGED content
      BY <1>1, <2>3 DEF Next, WriteImageFile, WebServer, Start, Unlink, Open, Mmap, Close,
         At, Store, CallFails, CloseFails, MunmapFails, Crash, ReaderOpens, ReaderReads,
         ReaderCloses, AdapterUnchanged, vars
    <3> QED BY <3>1
  <2> QED BY <2>1, <2>2, <2>3
<1>2. TypeOK /\ FilesInv /\ [Next]_vars
        => [\A i \in Images : Whole(i) => content'[i] = content[i]]_vars
  BY <1>1
<1> QED BY <1>2, FilesCorrect, PTL DEF Spec, WholeImagesStay

-----------------------------------------------------------------------------
(* The table as the replies see it.                                        *)

Picture(i, s) == [j \in 1 .. s |-> i]

(* A reply reads the whole image that the entry names.                     *)
ViewInv ==
  \A c \in Cameras :
    /\ table[c] = NoEntry => View[c] = << >>
    /\ table[c] # NoEntry => View[c] = Picture(table[c].data, table[c].size)

LEMMA ViewIsWhole == TypeOK /\ FilesInv => ViewInv
<1> SUFFICES ASSUME TypeOK, FilesInv, NEW c \in Cameras, table[c] # NoEntry
             PROVE  View[c] = Picture(table[c].data, table[c].size)
  BY DEF ViewInv, View
<1> DEFINE i == table[c].data
           s == table[c].size
<1>1. i \in mapped /\ Whole(i) /\ Len(content[i]) = s
  BY DEF FilesInv, TableInv
<1>2. content[i] \in Seq(Blocks)
  BY <1>1 DEF TypeOK
<1>3. \A j \in 1 .. s : j <= Len(content[i]) /\ content[i][j] = i
  BY <1>1, <1>2 DEF Whole
<1>4. View[c] = [j \in 1 .. s |-> IF i \in mapped /\ j <= Len(content[i])
                                   THEN content[i][j] ELSE Fault]
  BY DEF View
<1> QED BY <1>1, <1>3, <1>4 DEF Picture

(* The image that is stored is under no entry yet: its call has not ended. *)
LEMMA NewPicture ==
  ASSUME TypeOK, FilesInv, ViewInv, pc = "store", NEW d \in Cameras
  PROVE  Picture(call, size) # View[d]
<1>1. size \in Nat \ {0} /\ call \in Nat
  BY SizesAssumption DEF FilesInv, CallInv, Images
<1>2. CASE table[d] = NoEntry
  <2>1. DOMAIN Picture(call, size) = 1 .. size /\ 1 \in 1 .. size
    BY <1>1 DEF Picture
  <2>2. DOMAIN View[d] = {}
    BY <1>2 DEF ViewInv
  <2> QED BY <2>1, <2>2
<1>3. CASE table[d] # NoEntry
  <2>1. table[d].data \in mapped
    BY <1>3 DEF FilesInv, TableInv
  <2>2. table[d].data \in 1 .. (call - 1)
    BY <2>1 DEF FilesInv, OnlyEndedCalls, Ended, TypeOK, Images, None
  <2>3. Picture(call, size)[1] = call
    BY <1>1 DEF Picture
  <2>4. ASSUME View[d] = Picture(call, size) PROVE FALSE
    <3>1. Picture(table[d].data, table[d].size) = Picture(call, size)
      BY <1>3, <2>4 DEF ViewInv
    <3>2. 1 \in DOMAIN Picture(call, size)
      BY <1>1 DEF Picture
    <3>3. 1 \in 1 .. table[d].size
      BY <3>1, <3>2 DEF Picture
    <3>4. Picture(table[d].data, table[d].size)[1] = table[d].data
      BY <3>3 DEF Picture
    <3> QED BY <1>1, <2>2, <2>3, <3>1, <3>4
  <2> QED BY <2>4
<1> QED BY <1>2, <1>3

(* Every step is a step of the store, or changes nothing that is seen.     *)
LEMMA StoreStep ==
  TypeOK /\ FilesInv /\ ViewInv /\ ViewInv' /\ [Next]_vars => [TableView!Next]_View
<1> SUFFICES ASSUME TypeOK, FilesInv, ViewInv, ViewInv', [Next]_vars
             PROVE  TableView!Next \/ View' = View
  OBVIOUS
<1>0. View = [c \in Cameras |-> View[c]] /\ View' = [c \in Cameras |-> View'[c]]
  BY DEF View
<1>1. ASSUME NEW c \in Cameras, table'[c] = table[c] PROVE View'[c] = View[c]
  <2>1. CASE table[c] = NoEntry
    <3>1. View[c] = << >>
      BY <2>1 DEF ViewInv
    <3>2. View'[c] = << >>
      BY <1>1, <2>1 DEF ViewInv, NoEntry, None
    <3> QED BY <3>1, <3>2
  <2>2. CASE table[c] # NoEntry
    <3>1. View[c] = Picture(table[c].data, table[c].size)
      BY <2>2 DEF ViewInv
    <3>2. View'[c] = Picture(table'[c].data, table'[c].size)
      BY <1>1, <2>2 DEF ViewInv, NoEntry, None, Picture
    <3> QED BY <1>1, <3>1, <3>2
  <2> QED BY <2>1, <2>2
<1>2. CASE Store
  <2>1. size \in Sizes /\ call \in Images /\ file = call /\ cam \in Cameras /\ size # 0
    BY <1>2, SizesAssumption DEF Store, FilesInv, CallInv, TypeOK
  <2>2. table' = [table EXCEPT ![cam] = [data |-> call, size |-> size]]
    BY <1>2, <2>1 DEF Store
  <2>3. table'[cam] = [data |-> call, size |-> size] /\ table'[cam] # NoEntry
    BY <2>1, <2>2 DEF TypeOK, NoEntry
  <2>4. View'[cam] = Picture(call, size)
    BY <2>1, <2>3 DEF ViewInv, NoEntry, None, Picture
  <2>5. \A d \in Cameras : d # cam => View'[d] = View[d]
    BY <1>1, <2>2 DEF TypeOK
  <2>6. View' = [View EXCEPT ![cam] = Picture(call, size)]
    BY <1>0, <2>1, <2>4, <2>5
  <2>7. \A d \in Cameras : Picture(call, size) # View[d]
    BY <1>2, NewPicture DEF Store
  <2>8. Picture(call, size) \in WholeImages
    BY <2>1 DEF Picture, WholeImages
  <2> QED BY <2>1, <2>6, <2>7, <2>8 DEF TableView!Next, TableView!Publish
<1>3. CASE Crash
  <2>1. \A c \in Cameras : View'[c] = << >>
    BY <1>3 DEF Crash, View, NoEntry, None
  <2>2. View' = [c \in Cameras |-> << >>]
    BY <1>0, <2>1
  <2> QED BY <2>2 DEF TableView!Next, TableView!Restart, TableView!Empty
<1>4. CASE ~Store /\ ~Crash
  <2>1. table' = table
    BY <1>4 DEF Next, WriteImageFile, WebServer, Start, Unlink, Open, Ftruncate, Mmap, Close,
       CopyBlock, At, CallFails, CloseFails, MunmapFails, ReaderOpens, ReaderReads,
       ReaderCloses, AdapterUnchanged, vars
  <2> QED BY <1>0, <1>1, <2>1
<1> QED BY <1>2, <1>3, <1>4

(* writeImageFile, with the replies looking at the table at any moment and *)
(* with any of its system calls failing, is an atomic store of images.     *)
THEOREM TableIsImageStore == Spec => ImplementsStore
<1>1. Init => TableView!Init
  BY DEF Init, View, TableView!Init, TableView!Empty
<1>2. Spec => []ViewInv
  BY ViewIsWhole, FilesCorrect, PTL
<1> QED BY <1>1, <1>2, StoreStep, FilesCorrect, PTL DEF Spec, ImplementsStore, TableView!Spec
=============================================================================
