---------------------------- MODULE ServicesProofs ----------------------------
(***************************************************************************)
(* Proofs about the services of family_chat: its files, for any contents,  *)
(* sizes, headers and uploads, its limiters, for any limits, keys and      *)
(* clock, and the four services together.                                  *)
(***************************************************************************)
EXTENDS MCServices, ReadingProofs, SelectionProofs

-----------------------------------------------------------------------------
(* Files.                                                                  *)

Optional == Content \cup {NoContent}

Place == {"idle", "open", "write", "saved"}

Request == [at : Place, of : Optional,
            saves : Optional, thumb : Optional, gone : BOOLEAN]

StoreType ==
    /\ disk \in [Content -> Absent .. Size]
    /\ files \subseteq Meta
    /\ upload \in [Upload -> Request]

\* What an upload has established: what it writes or has written is a file;
\* what it will list was saved before, the file itself before its thumbnail.
UploadIsSound(u) ==
    /\ upload[u].at # "idle" => upload[u].saves \in Content
    /\ upload[u].at # "idle" /\ ~upload[u].gone =>
          /\ upload[u].of \in Content
          /\ upload[u].thumb = NoContent => upload[u].saves = upload[u].of
          /\ upload[u].thumb # NoContent =>
                upload[u].saves = upload[u].thumb /\ IsWhole(upload[u].of)
    /\ upload[u].at = "saved" => IsWhole(upload[u].saves) /\ ~upload[u].gone

FilesInv ==
    /\ StoreType
    /\ \A u \in Upload : UploadIsSound(u)
    /\ ListedIsWhole

-----------------------------------------------------------------------------
\* No step but a restart, which forgets what was listed, takes from a file
\* that it is whole, being written, or known to be cut short.
LEMMA WholeStays ==
    ASSUME FilesInv, [FilesNext]_filesVars, ~Restart, NEW f \in Content, IsWhole(f)
    PROVE  IsWhole(f)'
<1> USE FilesAssumption DEF FilesInv, StoreType, Request, Optional
<1>1. ASSUME UNCHANGED <<disk, cutShort>>,
             \A u \in Upload : upload[u].at = "write" =>
                 upload'[u].at = "write" /\ upload'[u].saves = upload[u].saves
      PROVE  IsWhole(f)'
  BY <1>1 DEF IsWhole, UnderWrite
<1>2. ASSUME NEW u \in Upload, NEW g \in Content, BeginUpload(u, g)
      PROVE  IsWhole(f)'
  BY <1>1, <1>2 DEF BeginUpload, NoUpload
<1>3. ASSUME NEW u \in Upload, OpenForWrite(u)
      PROVE  IsWhole(f)'
  <2>1. upload'[u].at = "write" /\ upload'[u].saves = upload[u].saves
    BY <1>3 DEF OpenForWrite
  <2>2. \A v \in Upload : v # u => upload'[v] = upload[v]
    BY <1>3 DEF OpenForWrite
  <2>3. CASE f = upload[u].saves
    BY <2>1, <2>3 DEF IsWhole, UnderWrite
  <2>4. CASE f # upload[u].saves
    <3>1. disk'[f] = disk[f] /\ cutShort' = cutShort
      BY <1>3, <2>4 DEF OpenForWrite
    <3>2. UnderWrite(f) => UnderWrite(f)'
      BY <2>1, <2>2 DEF UnderWrite
    <3> QED BY <3>1, <3>2 DEF IsWhole
  <2> QED BY <2>3, <2>4
<1>4. ASSUME NEW u \in Upload, WriteContent(u)
      PROVE  IsWhole(f)'
  <2>1. \A v \in Upload : v # u => upload'[v] = upload[v]
    BY <1>4 DEF WriteContent
  <2>2. CASE f = upload[u].saves
    BY <1>4, <2>2 DEF WriteContent, IsWhole
  <2>3. CASE f # upload[u].saves
    <3>1. disk'[f] = disk[f] /\ (f \in cutShort => f \in cutShort')
      BY <1>4, <2>3 DEF WriteContent
    <3>2. UnderWrite(f) => UnderWrite(f)'
      BY <2>1, <2>3 DEF UnderWrite
    <3> QED BY <3>1, <3>2 DEF IsWhole
  <2> QED BY <2>2, <2>3
<1>5. ASSUME NEW u \in Upload, WriteStopsShort(u)
      PROVE  IsWhole(f)'
  <2>1. \A v \in Upload : v # u => upload'[v] = upload[v]
    BY <1>5 DEF WriteStopsShort, AfterFailure, List
  <2>2. PICK k \in 0 .. Size - 1 :
          LET g == upload[u].saves
              len == IF disk[g] > k THEN disk[g] ELSE k
          IN  /\ disk' = [disk EXCEPT ![g] = len]
              /\ cutShort' = IF len < Size THEN cutShort \cup {g} ELSE cutShort
    BY <1>5 DEF WriteStopsShort
  <2>3. CASE f = upload[u].saves
    <3>1. f \in cutShort' \/ disk'[f] = Size
      <4> DEFINE len == IF disk[f] > k THEN disk[f] ELSE k
      <4>1. len \in 0 .. Size
        BY DEF Absent
      <4>2. disk'[f] = len /\ (len < Size => f \in cutShort')
        BY <2>2, <2>3
      <4> HIDE DEF len
      <4> QED BY <4>1, <4>2
    <3> QED BY <3>1 DEF IsWhole
  <2>4. CASE f # upload[u].saves
    <3>1. disk'[f] = disk[f] /\ (f \in cutShort => f \in cutShort')
      BY <2>2, <2>4
    <3>2. UnderWrite(f) => UnderWrite(f)'
      BY <2>1, <2>4 DEF UnderWrite
    <3> QED BY <3>1, <3>2 DEF IsWhole
  <2> QED BY <2>3, <2>4
<1>6. ASSUME NEW u \in Upload, OpenFails(u)
      PROVE  IsWhole(f)'
  BY <1>1, <1>6 DEF OpenFails, AfterFailure, List, NoUpload
<1>7. ASSUME NEW u \in Upload, SaveThumb(u)
      PROVE  IsWhole(f)'
  BY <1>1, <1>7 DEF SaveThumb
<1>8. ASSUME NEW u \in Upload, ListFile(u)
      PROVE  IsWhole(f)'
  BY <1>1, <1>8 DEF ListFile, List, NoUpload
<1>9. ASSUME NEW u \in Upload, HangUp(u)
      PROVE  IsWhole(f)'
  <2>1. CASE /\ upload[u].at \in {"open", "saved"}
             /\ upload' = [upload EXCEPT ![u] = NoUpload]
    BY <1>1, <1>9, <2>1 DEF HangUp
  <2>2. CASE upload' = [upload EXCEPT ![u] =
                            [@ EXCEPT !.of = NoContent, !.thumb = NoContent,
                                      !.gone = TRUE]]
    <3>1. upload'[u].at = upload[u].at /\ upload'[u].saves = upload[u].saves
      BY <2>2
    <3>2. \A v \in Upload : v # u => upload'[v] = upload[v]
      BY <2>2
    <3> QED BY <1>1, <1>9, <3>1, <3>2 DEF HangUp
  <2> QED BY <1>9, <2>1, <2>2 DEF HangUp
<1>10. CASE \/ \E g \in Content, range \in Ranges : BeginDownload(g, range)
            \/ StatFile \/ StatPanics \/ ReadByte \/ EndStream
            \/ UNCHANGED filesVars
  <2>1. UNCHANGED <<disk, cutShort, upload>>
    BY <1>10 DEF BeginDownload, StatFile, StatPanics, ReadByte, EndStream, filesVars
  <2> QED BY <1>1, <2>1
<1> QED BY <1>2, <1>3, <1>4, <1>5, <1>6, <1>7, <1>8, <1>9, <1>10 DEF FilesNext

\* An upload that a step leaves alone, or that a restart ends, stays sound.
LEMMA OtherUploadsStaySound ==
    ASSUME FilesInv, [FilesNext]_filesVars, ~Restart,
           NEW v \in Upload, upload'[v] = upload[v] \/ upload'[v] = NoUpload
    PROVE  UploadIsSound(v)'
<1>1. CASE upload'[v] = upload[v]
  <2>1. \A f \in Content : IsWhole(f) => IsWhole(f)'
    BY WholeStays
  <2>2. UploadIsSound(v)
    BY DEF FilesInv
  <2> QED BY <1>1, <2>1, <2>2 DEF UploadIsSound
<1>2. CASE upload'[v] = NoUpload
  BY <1>2 DEF UploadIsSound, NoUpload
<1> QED BY <1>1, <1>2

\* The list stays sound if what is added to it is whole.
LEMMA ListStaysWhole ==
    ASSUME FilesInv, [FilesNext]_filesVars, ~Restart,
           \/ files' = files
           \/ \E m \in Meta :
                 /\ files' = Saved(m)
                 /\ IsWhole(m.id)
                 /\ m.thumb # NoContent => IsWhole(m.thumb)
    PROVE  ListedIsWhole' /\ files' \subseteq Meta
<1>1. \A f \in Content : IsWhole(f) => IsWhole(f)'
  BY WholeStays
<1>2. \A m \in Meta : m.id \in Content /\ (m.thumb # NoContent => m.thumb \in Content)
  BY DEF Meta
<1>3. \A m \in files' :
        m \in Meta /\ IsWhole(m.id) /\ (m.thumb # NoContent => IsWhole(m.thumb))
  BY DEF FilesInv, StoreType, ListedIsWhole, Saved
<1> QED BY <1>1, <1>2, <1>3 DEF ListedIsWhole

\* Another entry of the list: the file, with a thumbnail if it was saved.
LEMMA ListIsSound ==
    ASSUME FilesInv, [FilesNext]_filesVars, ~Restart, NEW u \in Upload,
           NEW thumb \in Optional, List(u, thumb),
           upload[u].of \in Content, IsWhole(upload[u].of),
           thumb # NoContent => IsWhole(thumb),
           disk' \in [Content -> Absent .. Size]
    PROVE  FilesInv'
<1>1. /\ upload' = [upload EXCEPT ![u] = NoUpload]
      /\ files' = Saved([id |-> upload[u].of, thumb |-> thumb])
  BY DEF List
<1>2. [id |-> upload[u].of, thumb |-> thumb] \in Meta
  BY DEF Meta, Optional
<1>3. ListedIsWhole' /\ files' \subseteq Meta
  BY <1>1, <1>2, ListStaysWhole
<1>4. upload' \in [Upload -> Request]
  BY <1>1 DEF FilesInv, StoreType, Request, Optional, Place, NoUpload
<1>5. \A v \in Upload : upload'[v] = upload[v] \/ upload'[v] = NoUpload
  BY <1>1 DEF FilesInv, StoreType
<1>6. \A v \in Upload : UploadIsSound(v)'
  BY <1>5, OtherUploadsStaySound
<1> QED BY <1>3, <1>4, <1>6 DEF FilesInv, StoreType

\* A step that leaves the list alone and one upload at most not as it was.
LEMMA UploadIsSoundStep ==
    ASSUME FilesInv, [FilesNext]_filesVars, ~Restart, UNCHANGED files,
           NEW u \in Upload, NEW r \in Request,
           upload' = [upload EXCEPT ![u] = r],
           UploadIsSound(u)',
           disk' \in [Content -> Absent .. Size]
    PROVE  FilesInv'
<1>1. ListedIsWhole' /\ files' \subseteq Meta
  BY ListStaysWhole
<1>2. upload' \in [Upload -> Request]
  BY DEF FilesInv, StoreType
<1>3. ASSUME NEW v \in Upload, v # u PROVE UploadIsSound(v)'
  <2>1. upload'[v] = upload[v]
    BY <1>3 DEF FilesInv, StoreType
  <2> QED BY <2>1, OtherUploadsStaySound
<1> QED BY <1>1, <1>2, <1>3 DEF FilesInv, StoreType

\* What follows a failure: the request is over, or the file is listed bare.
LEMMA FailureIsSound ==
    ASSUME FilesInv, [FilesNext]_filesVars, ~Restart, NEW u \in Upload,
           upload[u].at # "idle", AfterFailure(u),
           disk' \in [Content -> Absent .. Size]
    PROVE  FilesInv'
<1>1. CASE upload[u].gone \/ upload[u].thumb = NoContent
  <2>1. upload' = [upload EXCEPT ![u] = NoUpload] /\ UNCHANGED files
    BY <1>1 DEF AfterFailure
  <2>2. NoUpload \in Request
    BY DEF NoUpload, Request, Optional, Place
  <2>3. UploadIsSound(u)'
    <3>1. upload'[u] = NoUpload
      BY <2>1 DEF FilesInv, StoreType
    <3> QED BY <3>1, OtherUploadsStaySound
  <2> QED BY <2>1, <2>2, <2>3, UploadIsSoundStep
<1>2. CASE ~(upload[u].gone \/ upload[u].thumb = NoContent)
  <2>1. List(u, NoContent)
    BY <1>2 DEF AfterFailure
  <2>2. upload[u].of \in Content /\ IsWhole(upload[u].of)
    BY <1>2 DEF FilesInv, UploadIsSound
  <2>3. NoContent \in Optional
    BY DEF Optional
  <2> QED BY <2>1, <2>2, <2>3, ListIsSound
<1> QED BY <1>1, <1>2

-----------------------------------------------------------------------------
\* The forms in which a step rewrites a request.

\* A request goes to another place, and nothing else of it changes.
LEMMA Goes ==
    ASSUME NEW w \in Request, NEW at \in Place, NEW E, E = [w EXCEPT !.at = at]
    PROVE  /\ E \in Request
           /\ E.at = at /\ E.of = w.of /\ E.saves = w.saves /\ E.thumb = w.thumb
<1>1. [w EXCEPT !.at = at] \in Request
  BY DEF Request, Optional, Place
<1>2. /\ E.at = at /\ E.of = w.of /\ E.saves = w.saves /\ E.thumb = w.thumb
  BY DEF Request, Optional, Place
<1> QED BY <1>1, <1>2

\* In particular its handler is there, or gone, as it was.
LEMMA GoesAlive ==
    ASSUME NEW w \in Request, NEW at \in Place, NEW E, E = [w EXCEPT !.at = at]
    PROVE  E.gone = w.gone
  BY DEF Request, Optional, Place

\* A request begins with the file it carries.
LEMMA Begins ==
    ASSUME NEW f \in Content, NEW E,
           E = [NoUpload EXCEPT !.at = "open", !.of = f, !.saves = f]
    PROVE  /\ E \in Request
           /\ E.at = "open" /\ E.of = f /\ E.saves = f /\ E.thumb = NoContent
  BY DEF Request, Optional, Place, NoUpload

Thumbed(w, f) == [w EXCEPT !.at = "open", !.saves = f, !.thumb = f]

\* The file of a request is followed by its thumbnail.
LEMMA TurnsToThumb ==
    ASSUME NEW w \in Request, NEW f \in Content, NEW E, E = Thumbed(w, f)
    PROVE  /\ E \in Request
           /\ E.at = "open" /\ E.of = w.of /\ E.saves = f /\ E.thumb = f
<1> USE DEF Thumbed
<1>1. [w EXCEPT !.at = "open", !.saves = f, !.thumb = f] \in Request
  BY DEF Request, Optional, Place
<1>2. E.at = "open" /\ E.of = w.of /\ E.saves = f /\ E.thumb = f
  BY DEF Request, Optional, Place
<1> QED BY <1>1, <1>2

\* The handler of a request is dropped, and its write is left.
LEMMA LosesHandler ==
    ASSUME NEW w \in Request, NEW E,
           E = [w EXCEPT !.of = NoContent, !.thumb = NoContent, !.gone = TRUE]
    PROVE  E \in Request /\ E.at = w.at /\ E.saves = w.saves /\ E.gone
<1>1. [w EXCEPT !.of = NoContent, !.thumb = NoContent, !.gone = TRUE] \in Request
  BY DEF Request, Optional, Place
<1>2. E.at = w.at /\ E.saves = w.saves
  BY DEF Request, Optional, Place
<1>3. E.gone
  BY DEF Request, Optional, Place
<1> QED BY <1>1, <1>2, <1>3

\* A file of an admitted length leaves the disk well-typed.
LEMMA DiskTakes ==
    ASSUME FilesInv, NEW f \in Content, NEW len \in Absent .. Size,
           disk' = [disk EXCEPT ![f] = len]
    PROVE  disk' \in [Content -> Absent .. Size]
  BY DEF FilesInv, StoreType

-----------------------------------------------------------------------------
\* No step leaves the invariant.
LEMMA FilesStep ==
    ASSUME FilesInv, [FilesNext]_filesVars
    PROVE  FilesInv'
<1> USE FilesAssumption
<1>0. \A u \in Upload : upload[u] \in Request
  BY DEF FilesInv, StoreType
<1>1. CASE Restart
  <2>1. upload' = [u \in Upload |-> NoUpload] /\ files' = {} /\ disk' = disk
    BY <1>1 DEF Restart
  <2>2. NoUpload \in Request
    BY DEF NoUpload, Request, Optional, Place
  <2>3. \A u \in Upload : UploadIsSound(u)'
    BY <2>1 DEF UploadIsSound, NoUpload
  <2> QED BY <2>1, <2>2, <2>3 DEF FilesInv, StoreType, ListedIsWhole
<1>2. CASE ~Restart
  <2>0. \A f \in Content : IsWhole(f) => IsWhole(f)'
    BY <1>2, WholeStays
  <2>1. ASSUME NEW u \in Upload, NEW f \in Content, BeginUpload(u, f)
        PROVE  FilesInv'
    <3>1. PICK r \in Request :
            /\ r = [NoUpload EXCEPT !.at = "open", !.of = f, !.saves = f]
            /\ r.at = "open" /\ r.of = f /\ r.saves = f /\ r.thumb = NoContent
      BY Begins
    <3>2. /\ upload' = [upload EXCEPT ![u] = r]
          /\ UNCHANGED <<disk, files>>
      BY <2>1, <3>1 DEF BeginUpload
    <3>4. upload'[u] = r
      BY <3>2 DEF FilesInv, StoreType
    <3>3. UploadIsSound(u)'
      BY <3>1, <3>4 DEF UploadIsSound
    <3> QED BY <1>2, <3>2, <3>3, UploadIsSoundStep DEF FilesInv, StoreType
  <2>2. ASSUME NEW u \in Upload, OpenForWrite(u)
        PROVE  FilesInv'
    <3>1. PICK r \in Request :
            /\ r = [upload[u] EXCEPT !.at = "write"]
            /\ r.at = "write" /\ r.of = upload[u].of /\ r.saves = upload[u].saves
            /\ r.thumb = upload[u].thumb /\ r.gone = upload[u].gone
      <4>1. PICK w \in Request : w = upload[u]
        BY <1>0
      <4>2. PICK E : E = [w EXCEPT !.at = "write"]
        OBVIOUS
      <4>3. /\ E \in Request
            /\ E.at = "write" /\ E.of = w.of /\ E.saves = w.saves
            /\ E.thumb = w.thumb
        BY <4>2, Goes DEF Place
      <4>4. E.gone = w.gone
        BY <4>2, GoesAlive DEF Place
      <4> QED BY <4>1, <4>2, <4>3, <4>4
    <3>2. /\ upload' = [upload EXCEPT ![u] = r] /\ upload[u].at = "open"
          /\ files' = files /\ upload'[u] = r
      BY <2>2, <3>1 DEF OpenForWrite, FilesInv, StoreType
    <3>3. disk' \in [Content -> Absent .. Size]
      <4>1. upload[u].saves \in Content
        BY <2>2 DEF OpenForWrite, FilesInv, UploadIsSound
      <4>2. 0 \in Absent .. Size
        BY DEF Absent
      <4> QED BY <2>2, <4>1, <4>2, DiskTakes DEF OpenForWrite
    <3>4. UploadIsSound(u)'
      BY <2>0, <3>1, <3>2 DEF UploadIsSound, FilesInv
    <3> QED BY <1>2, <3>2, <3>3, <3>4, UploadIsSoundStep
  <2>3. ASSUME NEW u \in Upload, WriteContent(u)
        PROVE  FilesInv'
    <3>1. disk' \in [Content -> Absent .. Size]
      <4>1. upload[u].saves \in Content
        BY <2>3 DEF WriteContent, FilesInv, UploadIsSound
      <4>2. Size \in Absent .. Size
        BY DEF Absent
      <4> QED BY <2>3, <4>1, <4>2, DiskTakes DEF WriteContent
    <3>2. upload[u].at = "write" /\ upload[u].saves \in Content /\ files' = files
      BY <2>3 DEF WriteContent, FilesInv, UploadIsSound
    <3>3. CASE upload[u].gone
      <4>1. upload' = [upload EXCEPT ![u] = NoUpload]
        BY <2>3, <3>3 DEF WriteContent
      <4>2. NoUpload \in Request
        BY DEF NoUpload, Request, Optional, Place
      <4>3. upload'[u] = NoUpload
        BY <4>1 DEF FilesInv, StoreType
      <4>4. UploadIsSound(u)'
        BY <1>2, <4>3, OtherUploadsStaySound
      <4> QED BY <1>2, <3>1, <3>2, <4>1, <4>2, <4>4, UploadIsSoundStep
    <3>4. CASE ~upload[u].gone
      <4>1. PICK r \in Request :
              /\ r = [upload[u] EXCEPT !.at = "saved"]
              /\ r.at = "saved" /\ r.of = upload[u].of /\ r.saves = upload[u].saves
              /\ r.thumb = upload[u].thumb /\ r.gone = upload[u].gone
        <5>1. PICK w \in Request : w = upload[u]
          BY <1>0
        <5>2. PICK E : E = [w EXCEPT !.at = "saved"]
          OBVIOUS
        <5>3. /\ E \in Request
              /\ E.at = "saved" /\ E.of = w.of /\ E.saves = w.saves
              /\ E.thumb = w.thumb
          BY <5>2, Goes DEF Place
        <5>4. E.gone = w.gone
          BY <5>2, GoesAlive DEF Place
        <5> QED BY <5>1, <5>2, <5>3, <5>4
      <4>2. upload' = [upload EXCEPT ![u] = r] /\ upload'[u] = r
        BY <2>3, <3>4, <4>1 DEF WriteContent, FilesInv, StoreType
      <4>3. IsWhole(upload[u].saves)'
        <5>1. disk'[upload[u].saves] = Size
          BY <2>3, <3>2 DEF WriteContent, FilesInv, StoreType
        <5>2. upload'[u].saves = upload[u].saves
          BY <4>1, <4>2
        <5>3. PICK f \in Content : f = upload[u].saves
          BY <3>2
        <5>4. IsWhole(f)'
          BY <5>1, <5>3 DEF IsWhole
        <5>5. f = upload'[u].saves
          BY <5>2, <5>3
        <5> QED BY <5>4, <5>5
      <4>4. UploadIsSound(u)'
        BY <2>0, <3>2, <3>4, <4>1, <4>2, <4>3 DEF UploadIsSound, FilesInv
      <4> QED BY <1>2, <3>1, <3>2, <4>2, <4>4, UploadIsSoundStep
    <3> QED BY <3>3, <3>4
  <2>4. ASSUME NEW u \in Upload, OpenFails(u) PROVE FilesInv'
    BY <1>2, <2>4, FailureIsSound DEF OpenFails, FilesInv, StoreType
  <2>5. ASSUME NEW u \in Upload, WriteStopsShort(u) PROVE FilesInv'
    <3>1. disk' \in [Content -> Absent .. Size]
      <4>1. PICK f \in Content : f = upload[u].saves
        BY <2>5 DEF WriteStopsShort, FilesInv, UploadIsSound
      <4>2. PICK k \in 0 .. Size - 1 :
              disk' = [disk EXCEPT ![f] = IF disk[f] > k THEN disk[f] ELSE k]
        BY <2>5, <4>1 DEF WriteStopsShort
      <4>3. disk[f] \in Absent .. Size /\ k \in Absent .. Size
        BY DEF FilesInv, StoreType, Absent
      <4>4. PICK len \in Absent .. Size : disk' = [disk EXCEPT ![f] = len]
        BY <4>2, <4>3
      <4> QED BY <4>4, DiskTakes
    <3> QED BY <1>2, <2>5, <3>1, FailureIsSound DEF WriteStopsShort
  <2>6. ASSUME NEW u \in Upload, SaveThumb(u) PROVE FilesInv'
    <3>1. /\ upload[u].of \in Content /\ upload[u].saves = upload[u].of
          /\ IsWhole(upload[u].saves) /\ ~upload[u].gone
      BY <2>6 DEF SaveThumb, FilesInv, UploadIsSound
    <3>2. PICK thumb \in Content : thumb = ThumbOf[upload[u].of]
      BY <2>6, <3>1 DEF SaveThumb
    <3>3. PICK r \in Request :
            /\ r = Thumbed(upload[u], thumb)
            /\ r.at = "open" /\ r.of = upload[u].of
            /\ r.saves = thumb /\ r.thumb = thumb
      <4>1. PICK w \in Request : w = upload[u]
        BY <1>0
      <4>2. PICK E : E = Thumbed(w, thumb)
        OBVIOUS
      <4>3. /\ E \in Request
            /\ E.at = "open" /\ E.of = w.of /\ E.saves = thumb /\ E.thumb = thumb
        BY <4>2, TurnsToThumb
      <4> QED BY <4>1, <4>2, <4>3
    <3>4. upload' = [upload EXCEPT ![u] = r]
      BY <2>6, <3>2, <3>3 DEF SaveThumb, Thumbed
    <3>5. upload'[u] = r /\ UNCHANGED <<disk, files>>
      BY <2>6, <3>4 DEF SaveThumb, FilesInv, StoreType
    <3>6. PICK f \in Content : f = upload[u].of /\ IsWhole(f)'
      BY <2>0, <3>1
    <3>7. UploadIsSound(u)'
      BY <3>1, <3>3, <3>5, <3>6 DEF UploadIsSound
    <3> QED BY <1>2, <3>4, <3>5, <3>7, UploadIsSoundStep DEF FilesInv, StoreType
  <2>7. ASSUME NEW u \in Upload, ListFile(u) PROVE FilesInv'
    <3>1. List(u, upload[u].thumb) /\ disk' = disk /\ upload[u].at = "saved"
      BY <2>7 DEF ListFile
    <3>2. /\ upload[u].of \in Content /\ IsWhole(upload[u].of)
          /\ upload[u].thumb # NoContent => IsWhole(upload[u].thumb)
      BY <3>1 DEF FilesInv, UploadIsSound
    <3>3. upload[u].thumb \in Optional
      BY <1>0 DEF Request
    <3> QED BY <1>2, <3>1, <3>2, <3>3, ListIsSound DEF FilesInv, StoreType
  <2>8. ASSUME NEW u \in Upload, HangUp(u) PROVE FilesInv'
    <3>0. UNCHANGED <<disk, files>> /\ upload[u].at # "idle"
      BY <2>8 DEF HangUp
    <3>1. CASE upload' = [upload EXCEPT ![u] = NoUpload]
      <4>1. NoUpload \in Request
        BY DEF NoUpload, Request, Optional, Place
      <4>2. upload'[u] = NoUpload
        BY <3>1 DEF FilesInv, StoreType
      <4>3. UploadIsSound(u)'
        BY <1>2, <4>2, OtherUploadsStaySound
      <4> QED BY <1>2, <3>0, <3>1, <4>1, <4>3, UploadIsSoundStep DEF FilesInv, StoreType
    <3>2. CASE /\ upload[u].at \in {"open", "write"}
               /\ upload' = [upload EXCEPT ![u] =
                              [@ EXCEPT !.of = NoContent, !.thumb = NoContent,
                                        !.gone = TRUE]]
      <4>1. PICK r \in Request :
              /\ r = [upload[u] EXCEPT !.of = NoContent, !.thumb = NoContent,
                                       !.gone = TRUE]
              /\ r.at = upload[u].at /\ r.saves = upload[u].saves /\ r.gone
        <5>1. PICK w \in Request : w = upload[u]
          BY <1>0
        <5> QED BY <5>1, LosesHandler
      <4>3. upload' = [upload EXCEPT ![u] = r]
        BY <3>2, <4>1
      <4>4. upload'[u] = r /\ upload[u].saves \in Content
        BY <3>0, <4>3 DEF FilesInv, StoreType, UploadIsSound
      <4>5. UploadIsSound(u)'
        BY <3>2, <4>1, <4>4 DEF UploadIsSound
      <4> QED BY <1>2, <3>0, <4>3, <4>5, UploadIsSoundStep DEF FilesInv, StoreType
    <3> QED BY <2>8, <3>1, <3>2 DEF HangUp
  <2>9. CASE \/ \E f \in Content, range \in Ranges : BeginDownload(f, range)
             \/ StatFile \/ StatPanics \/ ReadByte \/ EndStream
             \/ UNCHANGED filesVars
    <3>1. UNCHANGED <<disk, files, upload>>
      BY <2>9 DEF BeginDownload, StatFile, StatPanics, ReadByte, EndStream, filesVars
    <3>2. ListedIsWhole'
      BY <1>2, <3>1, ListStaysWhole
    <3>3. \A u \in Upload : UploadIsSound(u)'
      BY <1>2, <3>1, OtherUploadsStaySound
    <3> QED BY <3>1, <3>2, <3>3 DEF FilesInv, StoreType
  <2> QED BY <1>2, <2>1, <2>2, <2>3, <2>4, <2>5, <2>6, <2>7, <2>8, <2>9 DEF FilesNext
<1> QED BY <1>1, <1>2

\* What uploads have established, at any time.
THEOREM FilesInvariant == FilesSpec => []FilesInv
<1>1. FilesInit => FilesInv
  BY FilesAssumption
     DEF FilesInit, FilesInv, StoreType, UploadIsSound, ListedIsWhole, NoUpload,
         Request, Optional, Place, Absent
<1>2. FilesInv /\ [FilesNext]_filesVars => FilesInv'
  BY FilesStep
<1> QED BY <1>1, <1>2, PTL DEF FilesSpec

\* Whatever overlaps, fails, hangs up or restarts: what may be downloaded is
\* on the disk and whole, or is being written again, or that write failed.
THEOREM ListedStaysWhole == FilesSpec => []ListedIsWhole
<1>1. FilesInv => ListedIsWhole
  BY DEF FilesInv
<1> QED BY <1>1, FilesInvariant, PTL

-----------------------------------------------------------------------------
(* Downloads.                                                              *)

\* What a Range header is resolved to is what its client wants.
LEMMA RangeIsWanted ==
    ASSUME NEW range \in Ranges, range # <<>>
    PROVE  \/ ParseRange(range, Size) = <<>> /\ Wanted(range) = 0 .. Size - 1
           \/ \E lo, hi \in Nat :
                 /\ lo <= hi /\ hi < Size
                 /\ ParseRange(range, Size) = <<lo, hi>>
                 /\ Wanted(range) = lo .. hi
<1> USE FilesAssumption
<1>1. (Size - 1) % Word = Size - 1
  OBVIOUS
<1>2. CASE \E a \in Byte : range = <<a>>
  <2>1. PICK a \in Byte : range = <<a>>
    BY <1>2
  <2>2. Len(range) = 1 /\ range[1] = a /\ a \in Nat
    BY <2>1 DEF Byte
  <2>3. CASE a > Size - 1
    BY <1>1, <2>2, <2>3 DEF ParseRange, Wanted
  <2>4. CASE ~(a > Size - 1)
    BY <1>1, <2>2, <2>4 DEF ParseRange, Wanted
  <2> QED BY <2>3, <2>4
<1>3. CASE range \in Byte \X Byte
  <2>1. PICK a \in Byte, b \in Byte : range = <<a, b>>
    BY <1>3
  <2>2. Len(range) = 2 /\ range[1] = a /\ range[2] = b /\ a \in Nat /\ b \in Nat
    BY <2>1 DEF Byte
  <2>3. CASE a > b \/ b >= Size
    BY <2>2, <2>3 DEF ParseRange, Wanted
  <2>4. CASE ~(a > b \/ b >= Size)
    BY <2>2, <2>4 DEF ParseRange, Wanted
  <2> QED BY <2>3, <2>4
<1> QED BY <1>2, <1>3

\* The bytes sent so far are those from lo to the position, and the stream
\* ends with hi: because it is to, or because the file does.
Streams(lo, hi) ==
    /\ lo <= hi /\ hi < Size
    /\ Wanted(download.range) = lo .. hi
    /\ download.pos \in lo .. hi + 1
    /\ download.got = lo .. download.pos - 1
    /\ \/ download.left = hi - download.pos + 1
       \/ download.left = Word - download.pos /\ hi = Size - 1

\* The parts of a download other than what it has sent.
DownloadType ==
    /\ {"at", "of", "range", "pos", "left", "got", "clean"} = DOMAIN download
    /\ download.at \in {"open", "stream", "done"} =>
          download.of \in Content /\ download.range \in Ranges

CleanIsWhole ==
    download.at \in {"open", "stream", "done"} /\ download.clean =>
        /\ disk[download.of] = Size
        /\ download.at = "open" => download.got = {} /\ download.pos = 0
        /\ download.at = "stream" => \E lo, hi \in Nat : Streams(lo, hi)
        /\ download.at = "done" => download.got = Wanted(download.range)

DownloadInv == DownloadType /\ CleanIsWhole

\* A step that leaves the download alone, and the file it is of whole.
LEMMA DownloadGoesOn ==
    ASSUME DownloadInv, UNCHANGED download,
           \A f \in Content : disk[f] = Size => disk'[f] = Size
    PROVE  DownloadInv'
<1>1. DownloadType'
  BY DEF DownloadInv, DownloadType
<1>2. CleanIsWhole'
  BY DEF DownloadInv, DownloadType, CleanIsWhole, Streams
<1> QED BY <1>1, <1>2 DEF DownloadInv

\* A download that is over, or lost.
LEMMA NoDownloadIsSound ==
    ASSUME download' = NoDownload
    PROVE  DownloadInv'
  BY DEF NoDownload, DownloadInv, DownloadType, CleanIsWhole

\* The steps of the uploads, but the one that empties a file.
LEMMA UploadsLeaveDownloads ==
    ASSUME FilesInv, DownloadInv, NEW u \in Upload,
           \/ \E f \in Content : BeginUpload(u, f)
           \/ WriteContent(u) \/ OpenFails(u) \/ WriteStopsShort(u)
           \/ SaveThumb(u) \/ ListFile(u) \/ HangUp(u)
    PROVE  DownloadInv'
<1> USE FilesAssumption
<1>1. UNCHANGED download
  BY DEF BeginUpload, WriteContent, OpenFails, WriteStopsShort, SaveThumb, ListFile,
         HangUp
<1>2. CASE disk' = disk
  BY <1>1, <1>2, DownloadGoesOn
<1>3. CASE WriteContent(u)
  <2>1. \A f \in Content : disk[f] = Size => disk'[f] = Size
    BY <1>3 DEF WriteContent, FilesInv, StoreType
  <2> QED BY <1>1, <2>1, DownloadGoesOn
<1>4. CASE WriteStopsShort(u)
  <2>1. PICK k \in 0 .. Size - 1 :
          disk' = [disk EXCEPT ![upload[u].saves] =
                      IF disk[upload[u].saves] > k THEN disk[upload[u].saves] ELSE k]
    BY <1>4 DEF WriteStopsShort
  <2>2. ASSUME NEW f \in Content, disk[f] = Size PROVE disk'[f] = Size
    BY <2>1, <2>2 DEF FilesInv, StoreType
  <2> QED BY <1>1, <2>2, DownloadGoesOn
<1> QED BY <1>2, <1>3, <1>4 DEF BeginUpload, OpenFails, SaveThumb, ListFile, HangUp

\* Emptying a file ends what a download of it promises, no other's.
LEMMA OpeningSpoilsOwn ==
    ASSUME FilesInv, DownloadInv, NEW u \in Upload, OpenForWrite(u)
    PROVE  DownloadInv'
<1>1. PICK f \in Content : f = upload[u].saves
  BY DEF FilesInv, UploadIsSound, OpenForWrite
<1>2. /\ disk' = [disk EXCEPT ![f] = 0]
      /\ download' = [download EXCEPT !.clean = @ /\ download.of # f]
  BY <1>1 DEF OpenForWrite
<1>3. /\ DOMAIN download' = DOMAIN download
      /\ download'.at = download.at /\ download'.of = download.of
      /\ download'.range = download.range /\ download'.pos = download.pos
      /\ download'.left = download.left /\ download'.got = download.got
  BY <1>2 DEF DownloadInv, DownloadType
<1>4. download'.clean => download.clean /\ download.of # f
  BY <1>2 DEF DownloadInv, DownloadType
<1>5. DownloadType'
  BY <1>3 DEF DownloadInv, DownloadType
<1>6. CleanIsWhole'
  <2> SUFFICES ASSUME download.at \in {"open", "stream", "done"}, download'.clean
               PROVE  /\ disk'[download.of] = Size
                      /\ download.at = "open" => download.got = {} /\ download.pos = 0
                      /\ download.at = "stream" => \E lo, hi \in Nat : Streams(lo, hi)'
                      /\ download.at = "done" => download.got = Wanted(download.range)
    BY <1>3 DEF CleanIsWhole
  <2>1. disk'[download.of] = Size
    BY <1>2, <1>4 DEF DownloadInv, DownloadType, CleanIsWhole, FilesInv, StoreType
  <2>2. download.at = "stream" => \E lo, hi \in Nat : Streams(lo, hi)'
    BY <1>3, <1>4 DEF DownloadInv, CleanIsWhole, Streams
  <2> QED BY <1>4, <2>1, <2>2 DEF DownloadInv, CleanIsWhole
<1> QED BY <1>5, <1>6 DEF DownloadInv

\* A download begins with nothing sent, and clean if the file is whole.
LEMMA BeginDownloadIsSound ==
    ASSUME NEW f \in Content, NEW range \in Ranges, BeginDownload(f, range)
    PROVE  DownloadInv'
<1>1. PICK d : d = [at |-> "open", of |-> f, range |-> range, pos |-> 0,
                    left |-> 0, got |-> {}, clean |-> disk[f] = Size]
  OBVIOUS
<1>2. download' = d /\ disk' = disk
  BY <1>1 DEF BeginDownload
<1>3. /\ DOMAIN d = {"at", "of", "range", "pos", "left", "got", "clean"}
      /\ d.at = "open" /\ d.of = f /\ d.range = range /\ d.pos = 0 /\ d.got = {}
  BY <1>1
<1>4. d.clean => disk[f] = Size
  BY <1>1
<1> QED BY <1>2, <1>3, <1>4 DEF DownloadInv, DownloadType, CleanIsWhole

\* The stream begins with the first byte wanted.
LEMMA StatIsSound ==
    ASSUME FilesInv, DownloadInv, StatFile
    PROVE  DownloadInv'
<1> USE FilesAssumption
<1>1. download.at = "open" /\ UNCHANGED disk
  BY DEF StatFile
<1>2. PICK range \in Ranges, f \in Content : range = download.range /\ f = download.of
  BY <1>1 DEF DownloadInv, DownloadType
<1>3. PICK r : r = IF range = <<>> THEN <<>> ELSE ParseRange(range, disk[f])
  OBVIOUS
<1>4. CASE disk[f] = Absent
  BY <1>2, <1>4, NoDownloadIsSound DEF StatFile
<1>5. CASE disk[f] # Absent
  <2>1. PICK pos, left :
          /\ download' = [download EXCEPT !.at = "stream", !.pos = pos, !.left = left]
          /\ r = <<>> => pos = download.pos /\ left = Word
          /\ r # <<>> => pos = r[1] /\ left = r[2] - r[1] + 1
    <3>1. CASE r = <<>>
      <4>1. download' = [download EXCEPT !.at = "stream", !.left = Word]
        BY <1>2, <1>3, <1>5, <3>1 DEF StatFile
      <4>2. download' = [download EXCEPT !.at = "stream", !.pos = download.pos,
                                         !.left = Word]
        BY <4>1 DEF DownloadInv, DownloadType
      <4> QED BY <3>1, <4>2
    <3>2. CASE r # <<>>
      BY <1>2, <1>3, <1>5, <3>2 DEF StatFile
    <3> QED BY <3>1, <3>2
  <2>2. /\ DOMAIN download' = DOMAIN download /\ download'.at = "stream"
        /\ download'.of = f /\ download'.range = range
        /\ download'.pos = pos /\ download'.left = left
        /\ download'.got = download.got
    BY <1>2, <2>1 DEF DownloadInv, DownloadType
  <2>3. download'.clean = download.clean
    BY <2>1 DEF DownloadInv, DownloadType
  <2>4. DownloadType'
    BY <1>2, <2>2 DEF DownloadInv, DownloadType
  <2>5. ASSUME download.clean
        PROVE  disk[f] = Size /\ \E lo, hi \in Nat : Streams(lo, hi)'
    <3>1. disk[f] = Size /\ download.got = {} /\ download.pos = 0
      BY <1>1, <1>2, <2>5 DEF DownloadInv, CleanIsWhole
    <3>2. ASSUME Wanted(range) = 0 .. Size - 1, r = <<>>
          PROVE  Streams(0, Size - 1)'
      <4>1. pos = 0 /\ left = Word
        BY <2>1, <3>1, <3>2
      <4>2. 0 .. 0 - 1 = {} /\ 0 \in 0 .. Size - 1 + 1 /\ 0 <= Size - 1
        OBVIOUS
      <4> QED BY <2>2, <3>1, <3>2, <4>1, <4>2 DEF Streams, Wanted
    <3>3. ASSUME NEW lo \in Nat, NEW hi \in Nat, lo <= hi, hi < Size,
                 r = <<lo, hi>>, Wanted(range) = lo .. hi
          PROVE  Streams(lo, hi)'
      <4>1. r # <<>> /\ r[1] = lo /\ r[2] = hi
        BY <3>3
      <4>2. pos = lo /\ left = hi - lo + 1
        BY <2>1, <4>1
      <4>3. lo .. lo - 1 = {} /\ lo \in lo .. hi + 1
        BY <3>3
      <4> QED BY <2>2, <3>1, <3>3, <4>2, <4>3 DEF Streams, Wanted
    <3>4. CASE range = <<>>
      <4>1. Wanted(range) = 0 .. Size - 1 /\ r = <<>>
        BY <1>3, <3>4 DEF Wanted
      <4>2. Streams(0, Size - 1)'
        BY <3>2, <4>1
      <4>3. 0 \in Nat /\ Size - 1 \in Nat
        OBVIOUS
      <4> QED BY <3>1, <4>2, <4>3
    <3>5. CASE range # <<>>
      <4>1. r = ParseRange(range, Size)
        BY <1>3, <3>1, <3>5
      <4>2. CASE ParseRange(range, Size) = <<>> /\ Wanted(range) = 0 .. Size - 1
        <5>1. Streams(0, Size - 1)'
          BY <3>2, <4>1, <4>2
        <5>2. 0 \in Nat /\ Size - 1 \in Nat
          OBVIOUS
        <5> QED BY <3>1, <5>1, <5>2
      <4>3. ASSUME NEW lo \in Nat, NEW hi \in Nat, lo <= hi, hi < Size,
                   ParseRange(range, Size) = <<lo, hi>>, Wanted(range) = lo .. hi
            PROVE  disk[f] = Size /\ \E a, b \in Nat : Streams(a, b)'
        BY <3>1, <3>3, <4>1, <4>3
      <4> QED BY <3>5, <4>2, <4>3, RangeIsWanted
    <3> QED BY <3>4, <3>5
  <2>6. CleanIsWhole'
    BY <1>1, <2>2, <2>3, <2>5 DEF CleanIsWhole
  <2> QED BY <2>4, <2>6 DEF DownloadInv
<1> QED BY <1>4, <1>5

\* One more byte of the file is sent.
LEMMA ReadIsSound ==
    ASSUME FilesInv, DownloadInv, ReadByte
    PROVE  DownloadInv'
<1> USE FilesAssumption
<1>1. /\ download.at = "stream" /\ UNCHANGED disk
      /\ download.left > 0 /\ download.pos < disk[download.of]
      /\ download' = [download EXCEPT !.pos = @ + 1, !.left = @ - 1,
                                      !.got = @ \cup {download.pos}]
  BY DEF ReadByte
<1>2. /\ DOMAIN download' = DOMAIN download /\ download'.at = "stream"
      /\ download'.of = download.of /\ download'.range = download.range
      /\ download'.pos = download.pos + 1 /\ download'.left = download.left - 1
      /\ download'.got = download.got \cup {download.pos}
  BY <1>1 DEF DownloadInv, DownloadType
<1>3. download'.clean = download.clean
  BY <1>1 DEF DownloadInv, DownloadType
<1>4. DownloadType'
  BY <1>1, <1>2 DEF DownloadInv, DownloadType
<1>5. ASSUME download.clean
      PROVE  disk[download.of] = Size /\ \E lo, hi \in Nat : Streams(lo, hi)'
  <2>1. disk[download.of] = Size
    BY <1>1, <1>5 DEF DownloadInv, CleanIsWhole
  <2>2. PICK lo \in Nat, hi \in Nat : Streams(lo, hi)
    BY <1>1, <1>5 DEF DownloadInv, CleanIsWhole
  <2>3. PICK pos \in lo .. hi + 1, left \in Int : pos = download.pos /\ left = download.left
    BY <2>2 DEF Streams
  <2>4. pos \in lo .. hi
    BY <1>1, <2>1, <2>2, <2>3 DEF Streams
  <2>5. lo .. pos + 1 - 1 = (lo .. pos - 1) \cup {pos}
    BY <2>4
  <2>6. download'.got = lo .. download'.pos - 1 /\ download'.pos \in lo .. hi + 1
    BY <1>2, <2>2, <2>3, <2>4, <2>5 DEF Streams
  <2>7. \/ download'.left = hi - download'.pos + 1
        \/ download'.left = Word - download'.pos /\ hi = Size - 1
    BY <1>2, <2>2, <2>3 DEF Streams
  <2>8. Streams(lo, hi)'
    BY <1>2, <2>2, <2>6, <2>7 DEF Streams, Wanted
  <2> QED BY <2>1, <2>8
<1>6. CleanIsWhole'
  BY <1>1, <1>2, <1>3, <1>5 DEF CleanIsWhole
<1> QED BY <1>4, <1>6 DEF DownloadInv

\* The stream ends: all that is wanted was sent.
LEMMA EndIsSound ==
    ASSUME FilesInv, DownloadInv, EndStream
    PROVE  DownloadInv'
<1> USE FilesAssumption
<1>1. /\ download.at = "stream" /\ UNCHANGED disk
      /\ download.left = 0 \/ disk[download.of] <= download.pos
      /\ download' = [download EXCEPT !.at = "done", !.pos = 0, !.left = 0]
  BY DEF EndStream
<1>2. /\ DOMAIN download' = DOMAIN download /\ download'.at = "done"
      /\ download'.of = download.of /\ download'.range = download.range
      /\ download'.got = download.got
  BY <1>1 DEF DownloadInv, DownloadType
<1>3. download'.clean = download.clean
  BY <1>1 DEF DownloadInv, DownloadType
<1>4. DownloadType'
  BY <1>1, <1>2 DEF DownloadInv, DownloadType
<1>5. ASSUME download.clean
      PROVE  disk[download.of] = Size /\ download.got = Wanted(download.range)
  <2>1. disk[download.of] = Size
    BY <1>1, <1>5 DEF DownloadInv, CleanIsWhole
  <2>2. PICK lo \in Nat, hi \in Nat : Streams(lo, hi)
    BY <1>1, <1>5 DEF DownloadInv, CleanIsWhole
  <2>3. PICK pos \in lo .. hi + 1, left \in Int : pos = download.pos /\ left = download.left
    BY <2>2 DEF Streams
  <2>4. pos = hi + 1
    <3>1. /\ hi < Size /\ pos <= hi + 1
          /\ left = hi - pos + 1 \/ (left = Word - pos /\ hi = Size - 1)
      BY <2>2, <2>3 DEF Streams
    <3>2. left = 0 \/ Size <= pos
      BY <1>1, <2>1, <2>3
    <3> QED BY <2>3, <3>1, <3>2
  <2>5. download.got = lo .. pos - 1 /\ Wanted(download.range) = lo .. hi
    BY <2>2, <2>3 DEF Streams
  <2>6. pos - 1 = hi
    BY <2>4
  <2> QED BY <2>1, <2>5, <2>6
<1>6. CleanIsWhole'
  BY <1>1, <1>2, <1>3, <1>5 DEF CleanIsWhole, Wanted
<1> QED BY <1>4, <1>6 DEF DownloadInv

\* What a clean download has sent, at any time.
LEMMA DownloadInvariant == FilesSpec => []DownloadInv
<1>1. FilesInit => DownloadInv
  BY DEF FilesInit, NoDownload, DownloadInv, DownloadType, CleanIsWhole
<1>2. FilesInv /\ DownloadInv /\ [FilesNext]_filesVars => DownloadInv'
  <2> SUFFICES ASSUME FilesInv, DownloadInv, [FilesNext]_filesVars PROVE DownloadInv'
    OBVIOUS
  <2>1. ASSUME Restart \/ StatPanics PROVE DownloadInv'
    BY <2>1, NoDownloadIsSound DEF Restart, StatPanics
  <2>2. ASSUME UNCHANGED filesVars PROVE DownloadInv'
    BY <2>2, DownloadGoesOn DEF filesVars
  <2> QED
    BY <2>1, <2>2, UploadsLeaveDownloads, OpeningSpoilsOwn, BeginDownloadIsSound,
       StatIsSound, ReadIsSound, EndIsSound
       DEF FilesNext
<1> QED BY <1>1, <1>2, FilesInvariant, PTL DEF FilesSpec

\* A download during which nobody empties its file ends with the bytes that
\* its client asked for, whatever else is uploaded, fails or hangs up.
THEOREM ServedStaysWhole == FilesSpec => []ServedIsWhole
<1>1. DownloadInv => ServedIsWhole
  BY DEF DownloadInv, CleanIsWhole, ServedIsWhole
<1> QED BY <1>1, DownloadInvariant, PTL

-----------------------------------------------------------------------------
(* What a download may hold.                                               *)

Download == [at : {"idle", "open", "stream", "done"}, of : Optional, range : Ranges,
             pos : 0 .. Size, left : 0 .. Word, got : SUBSET Byte, clean : BOOLEAN]

\* A range that is satisfied lies in the file as it is now, however long.
LEMMA RangeIsInFile ==
    ASSUME NEW range \in Ranges, range # <<>>, NEW size \in Absent .. Size
    PROVE  \/ ParseRange(range, size) = <<>>
           \/ \E lo, hi \in Nat : /\ lo <= hi /\ hi < size
                                  /\ ParseRange(range, size) = <<lo, hi>>
<1> USE FilesAssumption DEF Absent
<1>1. (size - 1) % Word \in Nat
  <2>1. size - 1 \in Int /\ Word \in Nat \ {0}
    OBVIOUS
  <2> QED BY <2>1
<1>2. CASE \E a \in Byte : range = <<a>>
  <2>1. PICK a \in Byte : range = <<a>>
    BY <1>2
  <2>2. Len(range) = 1 /\ range[1] = a /\ a \in Nat
    BY <2>1 DEF Byte
  <2>3. PICK last \in Nat : last = (size - 1) % Word
    BY <1>1
  <2>4. ParseRange(range, size) =
           IF a > last \/ last >= size THEN <<>> ELSE <<a, last>>
    BY <2>2, <2>3 DEF ParseRange
  <2> QED BY <2>2, <2>4
<1>3. CASE range \in Byte \X Byte
  <2>1. PICK a \in Byte, b \in Byte : range = <<a, b>>
    BY <1>3
  <2>2. Len(range) = 2 /\ range[1] = a /\ range[2] = b /\ a \in Nat /\ b \in Nat
    BY <2>1 DEF Byte
  <2>3. ParseRange(range, size) = IF a > b \/ b >= size THEN <<>> ELSE <<a, b>>
    BY <2>2 DEF ParseRange
  <2> QED BY <2>2, <2>3
<1> QED BY <1>2, <1>3

\* The position, the rest and the bytes sent stay inside the file.
LEMMA DownloadTypeStep ==
    ASSUME FilesInv, DownloadInv, download \in Download, [FilesNext]_filesVars
    PROVE  download' \in Download
<1> USE FilesAssumption
<1>0. NoDownload \in Download
  BY DEF NoDownload, Download, Optional
<1>1. ASSUME NEW u \in Upload, OpenForWrite(u) PROVE download' \in Download
  <2>1. PICK c \in BOOLEAN : download' = [download EXCEPT !.clean = c]
    <3>1. PICK f : f = upload[u].saves
      OBVIOUS
    <3>2. download' = [download EXCEPT !.clean = (download.clean /\ download.of # f)]
      BY <1>1, <3>1 DEF OpenForWrite
    <3>3. PICK c : c = (download.clean /\ download.of # f)
      OBVIOUS
    <3>4. c \in BOOLEAN
      BY <3>3, Zenon
    <3> QED BY <3>2, <3>3, <3>4
  <2> QED BY <2>1 DEF Download
<1>2. ASSUME NEW u \in Upload,
             \/ \E f \in Content : BeginUpload(u, f)
             \/ WriteContent(u) \/ OpenFails(u) \/ WriteStopsShort(u)
             \/ SaveThumb(u) \/ ListFile(u) \/ HangUp(u)
      PROVE  download' = download
  BY <1>2 DEF BeginUpload, WriteContent, OpenFails, WriteStopsShort, SaveThumb,
              ListFile, HangUp
<1>3. ASSUME Restart \/ StatPanics PROVE download' \in Download
  BY <1>0, <1>3 DEF Restart, StatPanics
<1>4. ASSUME NEW f \in Content, NEW range \in Ranges, BeginDownload(f, range)
      PROVE  download' \in Download
  <2>1. PICK c \in BOOLEAN : c = (disk[f] = Size)
    OBVIOUS
  <2>2. download' = [at |-> "open", of |-> f, range |-> range, pos |-> 0,
                     left |-> 0, got |-> {}, clean |-> c]
    BY <1>4, <2>1 DEF BeginDownload
  <2> QED BY <2>2 DEF Download, Optional
<1>5. ASSUME download.at \in {"open", "stream"}
      PROVE  download.of \in Content /\ disk[download.of] \in Absent .. Size
  BY <1>5 DEF DownloadInv, DownloadType, FilesInv, StoreType
<1>6. ASSUME StatFile PROVE download' \in Download
  <2>1. PICK range \in Ranges, size \in Absent .. Size :
          range = download.range /\ size = disk[download.of]
    BY <1>5, <1>6 DEF StatFile, Download
  <2>2. PICK r : r = IF range = <<>> THEN <<>> ELSE ParseRange(range, size)
    OBVIOUS
  <2>3. CASE size = Absent
    BY <1>0, <1>6, <2>1, <2>3 DEF StatFile
  <2>4. CASE size # Absent /\ r = <<>>
    <3>1. download' = [download EXCEPT !.at = "stream", !.left = Word]
      BY <1>6, <2>1, <2>2, <2>4 DEF StatFile
    <3>2. PICK left \in 0 .. Word : left = Word
      OBVIOUS
    <3>3. download' = [download EXCEPT !.at = "stream", !.left = left]
      BY <3>1, <3>2
    <3> QED BY <3>3 DEF Download
  <2>5. CASE size # Absent /\ r # <<>>
    <3>1. PICK lo \in Nat, hi \in Nat : lo <= hi /\ hi < size /\ r = <<lo, hi>>
      BY <2>2, <2>5, RangeIsInFile
    <3>2. lo \in 0 .. Size /\ hi - lo + 1 \in 0 .. Word
      BY <3>1 DEF Absent
    <3>3. PICK left \in 0 .. Word : left = hi - lo + 1
      BY <3>2
    <3>4. r[1] = lo /\ r[2] = hi
      BY <3>1
    <3>5. download' = [download EXCEPT !.at = "stream", !.pos = lo, !.left = left]
      BY <1>6, <2>1, <2>2, <2>5, <3>3, <3>4 DEF StatFile
    <3> QED BY <3>2, <3>5 DEF Download
  <2> QED BY <2>3, <2>4, <2>5
<1>7. ASSUME ReadByte PROVE download' \in Download
  <2>1. PICK pos \in 0 .. Size, left \in 0 .. Word, had \in SUBSET Byte :
          pos = download.pos /\ left = download.left /\ had = download.got
    BY DEF Download
  <2>2. /\ left > 0 /\ pos < Size
    BY <1>5, <1>7, <2>1 DEF ReadByte, Absent
  <2>3. pos + 1 \in 0 .. Size /\ left - 1 \in 0 .. Word /\ had \cup {pos} \in SUBSET Byte
    BY <2>2 DEF Byte
  <2>4. download' = [download EXCEPT !.pos = pos + 1, !.left = left - 1,
                                     !.got = had \cup {pos}]
    BY <1>7, <2>1 DEF ReadByte
  <2> QED BY <2>3, <2>4 DEF Download
<1>8. ASSUME EndStream PROVE download' \in Download
  <2>1. download' = [download EXCEPT !.at = "done", !.pos = 0, !.left = 0]
    BY <1>8 DEF EndStream
  <2>2. 0 \in 0 .. Size /\ 0 \in 0 .. Word
    OBVIOUS
  <2> QED BY <2>1, <2>2 DEF Download
<1>9. CASE UNCHANGED filesVars
  BY <1>9 DEF filesVars
<1> QED BY <1>1, <1>2, <1>3, <1>4, <1>6, <1>7, <1>8, <1>9 DEF FilesNext

\* Metadata are kept under their id, once.
ListedOnce == \A m, n \in files : m.id = n.id => m = n

\* What is listed, the files known to be cut short, and the bounds.
LEMMA ListingTypeStep ==
    ASSUME FilesInv, ListedOnce, cutShort \subseteq Content,
           uploads \in 0 .. MaxUploads, restarts \in 0 .. MaxRestarts,
           [FilesNext]_filesVars
    PROVE  /\ ListedOnce' /\ cutShort' \subseteq Content
           /\ uploads' \in 0 .. MaxUploads /\ restarts' \in 0 .. MaxRestarts
<1> USE FilesAssumption
<1>1. ASSUME NEW m, files' = Saved(m) PROVE ListedOnce'
  BY <1>1 DEF Saved, ListedOnce
<1>2. ASSUME files' = files PROVE ListedOnce'
  BY <1>2 DEF ListedOnce
<1>3. ASSUME NEW u \in Upload, NEW thumb, List(u, thumb) PROVE ListedOnce'
  BY <1>1, <1>3 DEF List
<1>4. ASSUME NEW u \in Upload, AfterFailure(u) PROVE ListedOnce'
  BY <1>2, <1>3, <1>4 DEF AfterFailure
<1>5. ASSUME NEW u \in Upload, OpenFails(u) \/ WriteStopsShort(u) PROVE ListedOnce'
  BY <1>4, <1>5 DEF OpenFails, WriteStopsShort
<1>6. ASSUME NEW u \in Upload, ListFile(u) PROVE ListedOnce'
  BY <1>3, <1>6 DEF ListFile
<1>7. ASSUME NEW u \in Upload,
             \/ \E f \in Content : BeginUpload(u, f)
             \/ OpenForWrite(u) \/ WriteContent(u) \/ SaveThumb(u) \/ HangUp(u)
      PROVE  files' = files
  BY <1>7 DEF BeginUpload, OpenForWrite, WriteContent, SaveThumb, HangUp
<1>8. ASSUME Restart PROVE ListedOnce' /\ cutShort' \subseteq Content
  BY <1>8 DEF Restart, ListedOnce
<1>9. ASSUME \/ \E f \in Content, range \in Ranges : BeginDownload(f, range)
             \/ StatFile \/ StatPanics \/ ReadByte \/ EndStream
             \/ UNCHANGED filesVars
      PROVE  UNCHANGED <<files, cutShort, uploads, restarts>>
  BY <1>9 DEF BeginDownload, StatFile, StatPanics, ReadByte, EndStream, filesVars
<1>10. ListedOnce'
  BY <1>2, <1>5, <1>6, <1>7, <1>8, <1>9 DEF FilesNext
<1>11. ASSUME NEW u \in Upload, WriteStopsShort(u) PROVE cutShort' \subseteq Content
  <2>1. upload[u].saves \in Content
    BY <1>11 DEF FilesInv, UploadIsSound, WriteStopsShort
  <2>2. cutShort' = cutShort \cup {upload[u].saves} \/ cutShort' = cutShort
    BY <1>11 DEF WriteStopsShort
  <2> QED BY <2>1, <2>2
<1>12. ASSUME NEW u \in Upload,
              \/ \E f \in Content : BeginUpload(u, f)
              \/ OpenForWrite(u) \/ WriteContent(u) \/ OpenFails(u)
              \/ SaveThumb(u) \/ ListFile(u) \/ HangUp(u)
       PROVE  cutShort' \subseteq Content
  BY <1>12 DEF BeginUpload, OpenForWrite, WriteContent, OpenFails, SaveThumb,
               ListFile, HangUp
<1>13. cutShort' \subseteq Content
  BY <1>8, <1>9, <1>11, <1>12 DEF FilesNext
<1>14. uploads' = uploads \/ (uploads < MaxUploads /\ uploads' = uploads + 1)
  BY <1>9 DEF FilesNext, BeginUpload, OpenForWrite, WriteContent, OpenFails,
              WriteStopsShort, SaveThumb, ListFile, HangUp, Restart
<1>15. restarts' = restarts \/ (restarts < MaxRestarts /\ restarts' = restarts + 1)
  BY <1>9 DEF FilesNext, BeginUpload, OpenForWrite, WriteContent, OpenFails,
              WriteStopsShort, SaveThumb, ListFile, HangUp, Restart
<1> QED BY <1>10, <1>13, <1>14, <1>15

\* For any size and header: a download stays inside its file, and what is listed
\* is listed once (api.rs parse_range, download_file, AppState.files).
THEOREM FilesTypesHold == FilesSpec => []FilesTypeOK
<1> DEFINE Typed == /\ download \in Download /\ ListedOnce /\ cutShort \subseteq Content
                    /\ uploads \in 0 .. MaxUploads /\ restarts \in 0 .. MaxRestarts
<1>1. FilesInit => Typed
  <2> SUFFICES ASSUME FilesInit PROVE Typed
    OBVIOUS
  <2>1. NoDownload \in Download
    BY FilesAssumption DEF NoDownload, Download, Optional
  <2> QED BY <2>1, FilesAssumption DEF FilesInit, ListedOnce
<1>2. FilesInv /\ DownloadInv /\ Typed /\ [FilesNext]_filesVars => Typed'
  BY DownloadTypeStep, ListingTypeStep
<1>3. FilesInv /\ Typed => FilesTypeOK
  BY DEF FilesInv, StoreType, Request, Optional, Place, Download, ListedOnce, FilesTypeOK
<1>4. FilesSpec => []DownloadInv
  BY DownloadInvariant
<1> QED BY <1>1, <1>2, <1>3, <1>4, FilesInvariant, PTL DEF FilesSpec

-----------------------------------------------------------------------------
(* Limits.                                                                 *)

Bucket == [tokens : 0 .. Burst, since : Nat \cup {Never}]

\* Uploads that this bucket let pass.
Used(b) == Burst - b.tokens

\* A bucket b and the times g at which its key passed, at time t.  The last
\* Used(b) of them passed since the bucket was filled, the others before, and
\* but for Burst of those a whole Refill before: theirs was an earlier bucket.
BucketIsSound(b, g, t) ==
    /\ b.since <= t
    /\ b.since = Never => b.tokens = Burst /\ Len(g) = 0
    /\ Used(b) <= Len(g)
    /\ \A i \in 1 .. Len(g) :
          /\ g[i] <= t
          /\ i > Len(g) - Used(b) => g[i] >= b.since
          /\ i <= Len(g) - Used(b) => g[i] <= b.since
          /\ i <= Len(g) - Used(b) - Burst => g[i] <= b.since - Refill
    /\ \A i \in 1 .. Len(g) - 2 * Burst : g[i + 2 * Burst] - g[i] >= Refill

LimitsType ==
    /\ now \in Nat
    /\ bucket \in [Key -> Bucket]
    /\ granted \in [Limiter -> [Key -> Seq(Nat)]]
    /\ refused \subseteq Limiter \X Key

LimitsInv ==
    /\ LimitsType
    /\ \A k \in Key : BucketIsSound(bucket[k], granted["upload"][k], now)
    /\ \A k \in Key : <<"upload", k>> \in refused =>
          bucket[k].tokens = 0 /\ now - bucket[k].since < Refill

-----------------------------------------------------------------------------
\* As time goes by a bucket stays sound.
LEMMA LaterIsSound ==
    ASSUME NEW b \in Bucket, NEW g \in Seq(Nat), NEW t \in Nat, NEW s \in Nat,
           t <= s, BucketIsSound(b, g, t)
    PROVE  BucketIsSound(b, g, s)
  BY LimitsAssumption DEF BucketIsSound, Bucket, Never

\* The times at which a key passed, and one more.
LEMMA LongerHistory ==
    ASSUME NEW g \in Seq(Nat), NEW t \in Nat, NEW h, h = Append(g, t)
    PROVE  /\ h \in Seq(Nat)
           /\ Len(h) = Len(g) + 1 /\ h[Len(g) + 1] = t
           /\ \A i \in 1 .. Len(g) : h[i] = g[i]
  BY AppendProperties

\* A time that has another two bursts later, before the last of n + 1 times.
LEMMA TwoBurstsLater ==
    ASSUME NEW n \in Nat, NEW i \in 1 .. (n + 1) - 2 * Burst, i + 2 * Burst # n + 1
    PROVE  /\ i \in 1 .. n - 2 * Burst
           /\ i \in 1 .. n /\ i + 2 * Burst \in 1 .. n
<1>1. PICK m \in Nat : m = 2 * Burst
  BY LimitsAssumption
<1> QED BY <1>1

\* Two bursts before the last answer lie before the bucket's own answers and
\* those of the bucket before it.
LEMMA TwoBurstsAgo ==
    ASSUME NEW burst \in Nat \ {0}, NEW n \in Nat, NEW u \in 0 .. burst - 1,
           NEW m \in Nat \ {0}, m + 2 * burst = n + 1
    PROVE  m \in 1 .. n /\ m <= n - u - burst
  OBVIOUS

\* What was answered later is less old.
LEMMA LaterIsYounger ==
    ASSUME NEW t \in Nat, NEW x \in Nat, NEW y \in Nat, NEW age \in Nat,
           t - x < age, y >= x
    PROVE  t - y < age
  OBVIOUS

\* An upload passes while the bucket is not empty.
LEMMA PassIsSound ==
    ASSUME NEW b \in Bucket, NEW g \in Seq(Nat), NEW t \in Nat,
           BucketIsSound(b, g, t), b.since # Never, b.tokens > 0,
           NEW c \in Bucket, c.tokens = b.tokens - 1, c.since = b.since
    PROVE  BucketIsSound(c, Append(g, t), t)
<1> USE LimitsAssumption
<1>0. PICK h : h = Append(g, t)
  OBVIOUS
<1>1. /\ h \in Seq(Nat) /\ h = Append(g, t)
      /\ Len(h) = Len(g) + 1 /\ h[Len(g) + 1] = t
      /\ \A i \in 1 .. Len(g) : h[i] = g[i]
  BY <1>0, LongerHistory
<1>2. /\ Len(g) \in Nat /\ b.since \in Nat /\ b.tokens \in 1 .. Burst
      /\ \A i \in 1 .. Len(g) : g[i] \in Nat
  BY DEF Bucket
<1>3. Used(c) = Used(b) + 1 /\ Used(b) \in 0 .. Burst - 1 /\ Used(c) <= Len(h)
  BY <1>1, <1>2 DEF Used, BucketIsSound
<1>4. \A i \in 1 .. Len(h) :
        /\ h[i] <= t
        /\ i > Len(h) - Used(c) => h[i] >= c.since
        /\ i <= Len(h) - Used(c) => h[i] <= c.since
        /\ i <= Len(h) - Used(c) - Burst => h[i] <= c.since - Refill
  <2> SUFFICES ASSUME NEW i \in 1 .. Len(h)
               PROVE  /\ h[i] <= t
                      /\ i > Len(h) - Used(c) => h[i] >= c.since
                      /\ i <= Len(h) - Used(c) => h[i] <= c.since
                      /\ i <= Len(h) - Used(c) - Burst => h[i] <= c.since - Refill
    OBVIOUS
  <2>1. CASE i \in 1 .. Len(g)
    <3>1. h[i] = g[i] /\ Len(h) - Used(c) = Len(g) - Used(b)
      BY <1>1, <1>2, <1>3, <2>1
    <3>2. /\ g[i] <= t
          /\ i > Len(g) - Used(b) => g[i] >= b.since
          /\ i <= Len(g) - Used(b) => g[i] <= b.since
          /\ i <= Len(g) - Used(b) - Burst => g[i] <= b.since - Refill
      BY <2>1 DEF BucketIsSound
    <3> QED BY <3>1, <3>2
  <2>2. CASE i = Len(g) + 1
    <3>1. h[i] = t /\ b.since <= t
      BY <1>1, <2>2 DEF BucketIsSound
    <3>2. i > Len(h) - Used(c) /\ ~(i <= Len(h) - Used(c) - Burst)
      BY <1>1, <1>2, <1>3, <2>2
    <3> QED BY <1>1, <1>2, <1>3, <3>1, <3>2
  <2> QED BY <1>1, <1>2, <2>1, <2>2
<1>5. \A i \in 1 .. Len(h) - 2 * Burst : h[i + 2 * Burst] - h[i] >= Refill
  <2> SUFFICES ASSUME NEW i \in 1 .. Len(h) - 2 * Burst
               PROVE  h[i + 2 * Burst] - h[i] >= Refill
    OBVIOUS
  <2>1. CASE i + 2 * Burst = Len(h)
    <3>1. i \in 1 .. Len(g) /\ i <= Len(g) - Used(b) - Burst
      <4>1. i \in Nat \ {0} /\ i + 2 * Burst = Len(g) + 1
        BY <1>1, <1>2, <2>1
      <4>2. Len(g) \in Nat /\ Used(b) \in 0 .. Burst - 1
        BY <1>2, <1>3
      <4> QED BY <4>1, <4>2, TwoBurstsAgo
    <3>2. h[i] <= b.since - Refill /\ h[i] \in Nat
      BY <1>1, <1>2, <3>1 DEF BucketIsSound
    <3>3. h[i + 2 * Burst] = t
      BY <1>1, <2>1
    <3>4. b.since <= t
      BY DEF BucketIsSound
    <3> QED BY <1>2, <3>2, <3>3, <3>4
  <2>2. CASE i + 2 * Burst # Len(h)
    <3>1. PICK n \in Nat : n = Len(g) /\ n + 1 = Len(h)
      BY <1>1, <1>2
    <3>2. /\ i \in 1 .. Len(g) - 2 * Burst
          /\ i \in 1 .. Len(g) /\ i + 2 * Burst \in 1 .. Len(g)
      BY <2>2, <3>1, TwoBurstsLater
    <3>3. h[i] = g[i] /\ h[i + 2 * Burst] = g[i + 2 * Burst]
      BY <1>1, <3>2
    <3>4. g[i + 2 * Burst] - g[i] >= Refill
      BY <3>2 DEF BucketIsSound
    <3> QED BY <3>3, <3>4
  <2> QED BY <2>1, <2>2
<1>6. c.since <= t /\ c.since # Never
  BY DEF BucketIsSound
<1> QED BY <1>1, <1>3, <1>4, <1>5, <1>6 DEF BucketIsSound

\* The bucket is filled, and an upload passes.
LEMMA RefillIsSound ==
    ASSUME NEW b \in Bucket, NEW g \in Seq(Nat), NEW t \in Nat,
           BucketIsSound(b, g, t), b.since = Never \/ t - b.since >= Refill,
           NEW c \in Bucket, c.tokens = Burst - 1, c.since = t
    PROVE  BucketIsSound(c, Append(g, t), t)
<1> USE LimitsAssumption
<1>0. PICK h : h = Append(g, t)
  OBVIOUS
<1>1. /\ h \in Seq(Nat) /\ h = Append(g, t)
      /\ Len(h) = Len(g) + 1 /\ h[Len(g) + 1] = t
      /\ \A i \in 1 .. Len(g) : h[i] = g[i]
  BY <1>0, LongerHistory
<1>2. /\ Len(g) \in Nat /\ b.tokens \in 0 .. Burst /\ Used(c) = 1
      /\ \A i \in 1 .. Len(g) : g[i] \in Nat
  BY DEF Bucket, Used
<1>3. ASSUME NEW i \in 1 .. Len(g)
      PROVE  g[i] <= t /\ (i <= Len(g) - Burst => g[i] <= t - Refill)
  <2>1. b.since \in Nat /\ t - b.since >= Refill
    BY <1>2 DEF BucketIsSound, Bucket
  <2>2. Used(b) \in 0 .. Burst
    BY <1>2 DEF Used
  <2>3. i <= Len(g) - Burst => g[i] <= b.since
    BY <1>2, <2>2 DEF BucketIsSound
  <2> QED BY <1>2, <2>1, <2>3 DEF BucketIsSound
<1>4. \A i \in 1 .. Len(h) :
        /\ h[i] <= t
        /\ i > Len(h) - Used(c) => h[i] >= c.since
        /\ i <= Len(h) - Used(c) => h[i] <= c.since
        /\ i <= Len(h) - Used(c) - Burst => h[i] <= c.since - Refill
  <2> SUFFICES ASSUME NEW i \in 1 .. Len(h)
               PROVE  /\ h[i] <= t
                      /\ i > Len(h) - Used(c) => h[i] >= c.since
                      /\ i <= Len(h) - Used(c) => h[i] <= c.since
                      /\ i <= Len(h) - Used(c) - Burst => h[i] <= c.since - Refill
    OBVIOUS
  <2>1. CASE i \in 1 .. Len(g)
    <3>1. h[i] = g[i] /\ Len(h) - Used(c) = Len(g)
      BY <1>1, <1>2, <2>1
    <3>2. g[i] <= t /\ (i <= Len(g) - Burst => g[i] <= t - Refill)
      BY <1>2, <1>3, <2>1
    <3> QED BY <1>2, <2>1, <3>1, <3>2
  <2>2. CASE i = Len(g) + 1
    <3>1. h[i] = t
      BY <1>1, <2>2
    <3>2. i > Len(h) - Used(c) /\ ~(i <= Len(h) - Used(c) - Burst)
      BY <1>1, <1>2, <2>2
    <3> QED BY <3>1, <3>2
  <2> QED BY <1>1, <1>2, <2>1, <2>2
<1>5. \A i \in 1 .. Len(h) - 2 * Burst : h[i + 2 * Burst] - h[i] >= Refill
  <2> SUFFICES ASSUME NEW i \in 1 .. Len(h) - 2 * Burst
               PROVE  h[i + 2 * Burst] - h[i] >= Refill
    OBVIOUS
  <2>1. CASE i + 2 * Burst = Len(h)
    <3>1. i \in 1 .. Len(g) /\ i <= Len(g) - Burst
      BY <1>1, <1>2, <2>1
    <3>3. h[i] = g[i] /\ g[i] \in Nat
      BY <1>1, <1>2, <3>1
    <3>4. g[i] <= t - Refill
      BY <1>2, <1>3, <3>1
    <3>2. h[i] <= t - Refill /\ h[i] \in Nat
      BY <3>3, <3>4
    <3> QED BY <1>1, <2>1, <3>2
  <2>2. CASE i + 2 * Burst # Len(h)
    <3>1. PICK n \in Nat : n = Len(g) /\ n + 1 = Len(h)
      BY <1>1, <1>2
    <3>2. /\ i \in 1 .. Len(g) - 2 * Burst
          /\ i \in 1 .. Len(g) /\ i + 2 * Burst \in 1 .. Len(g)
      BY <2>2, <3>1, TwoBurstsLater
    <3>3. h[i] = g[i] /\ h[i + 2 * Burst] = g[i + 2 * Burst]
      BY <1>1, <3>2
    <3>4. g[i + 2 * Burst] - g[i] >= Refill
      BY <3>2 DEF BucketIsSound
    <3> QED BY <3>3, <3>4
  <2> QED BY <2>1, <2>2
<1>6. c.since <= t /\ c.since # Never /\ Used(c) <= Len(h)
  BY <1>1, <1>2 DEF Never
<1> QED BY <1>1, <1>4, <1>5, <1>6 DEF BucketIsSound

\* A step of another limiter, or of time, leaves the bucket's history alone.
LEMMA OtherLimiter ==
    ASSUME LimitsInv, NEW l \in Limiter, l # "upload", NEW k \in Key,
           NEW ok \in BOOLEAN, Answer(l, k, ok), UNCHANGED <<now, bucket>>
    PROVE  LimitsInv'
<1>1. granted' \in [Limiter -> [Key -> Seq(Nat)]] /\ granted'["upload"] = granted["upload"]
  <2>1. CASE ok
    <3>1. Append(granted[l][k], now) \in Seq(Nat)
      BY AppendProperties DEF LimitsInv, LimitsType
    <3>2. granted' = [granted EXCEPT ![l][k] = Append(@, now)]
      BY <2>1 DEF Answer
    <3> QED BY <3>1, <3>2 DEF LimitsInv, LimitsType, Limiter
  <2>2. CASE ~ok
    BY <2>2 DEF Answer, LimitsInv, LimitsType
  <2> QED BY <2>1, <2>2
<1>2. refused' \subseteq {<<l, k>>}
  BY DEF Answer
<1>3. LimitsType'
  BY <1>1, <1>2 DEF LimitsInv, LimitsType
<1>4. \A j \in Key : BucketIsSound(bucket[j], granted["upload"][j], now)'
  BY <1>1 DEF LimitsInv, BucketIsSound, Used
<1>5. \A j \in Key : <<"upload", j>> \notin refused'
  BY <1>2
<1> QED BY <1>3, <1>4, <1>5 DEF LimitsInv

\* An upload passes or is refused; the buckets of other keys are untouched.
LEMMA UploadCheckIsSound ==
    ASSUME LimitsInv, NEW k \in Key, CheckUpload(k)
    PROVE  LimitsInv'
<1> USE LimitsAssumption
<1>1. PICK b \in Bucket : b = bucket[k]
  BY DEF LimitsInv, LimitsType
<1>2. PICK g \in Seq(Nat) : g = granted["upload"][k]
  BY DEF LimitsInv, LimitsType, Limiter
<1>3. PICK t \in Nat : t = now
  BY DEF LimitsInv, LimitsType
<1>4. BucketIsSound(b, g, t)
  BY <1>1, <1>2, <1>3 DEF LimitsInv
<1>5. b.tokens \in 0 .. Burst /\ b.since \in Nat \cup {Never}
  BY DEF Bucket
<1>6. PICK f : f = Refilled(b)
  OBVIOUS
<1>7. /\ f \in Bucket
      /\ b.since = Never \/ t - b.since >= Refill => f.tokens = Burst /\ f.since = t
      /\ ~(b.since = Never \/ t - b.since >= Refill) => f = b
  BY <1>3, <1>5, <1>6 DEF Refilled, Bucket
<1>8. PICK c : c = [f EXCEPT !.tokens = IF f.tokens > 0 THEN f.tokens - 1 ELSE f.tokens]
  OBVIOUS
<1>9. c \in Bucket /\ c.since = f.since
      /\ c.tokens = (IF f.tokens > 0 THEN f.tokens - 1 ELSE f.tokens)
  <2>1. f.tokens \in 0 .. Burst /\ f.since \in Nat \cup {Never}
    BY <1>7 DEF Bucket
  <2>2. PICK n : n = IF f.tokens > 0 THEN f.tokens - 1 ELSE f.tokens
    OBVIOUS
  <2>3. n \in 0 .. Burst
    BY <2>1, <2>2
  <2>4. c = [f EXCEPT !.tokens = n]
    BY <1>8, <2>2
  <2>5. c.tokens = n /\ c.since = f.since /\ c \in Bucket
    BY <1>7, <2>1, <2>3, <2>4 DEF Bucket
  <2> QED BY <2>2, <2>5
<1>10. /\ now' = now /\ bucket' = [bucket EXCEPT ![k] = c]
       /\ Answer("upload", k, f.tokens > 0)
  BY <1>1, <1>6, <1>8 DEF CheckUpload
<1>11. /\ \A j \in Key \ {k} : bucket'[j] = bucket[j]
       /\ bucket'[k] = c /\ bucket' \in [Key -> Bucket]
  BY <1>9, <1>10 DEF LimitsInv, LimitsType
<1>12. CASE f.tokens > 0
  <2>1. granted' = [granted EXCEPT !["upload"][k] = Append(@, now)] /\ refused' = {}
    BY <1>10, <1>12 DEF Answer
  <2>2. PICK h \in Seq(Nat) : h = Append(g, t)
    BY AppendProperties
  <2>3. /\ granted' \in [Limiter -> [Key -> Seq(Nat)]]
        /\ granted'["upload"][k] = h
        /\ \A j \in Key \ {k} : granted'["upload"][j] = granted["upload"][j]
    BY <1>2, <1>3, <2>1, <2>2 DEF LimitsInv, LimitsType, Limiter
  <2>4. BucketIsSound(c, h, t)
    <3>1. CASE b.since = Never \/ t - b.since >= Refill
      BY <1>4, <1>7, <1>9, <1>12, <2>2, <3>1, RefillIsSound
    <3>2. CASE ~(b.since = Never \/ t - b.since >= Refill)
      BY <1>4, <1>7, <1>9, <1>12, <2>2, <3>2, PassIsSound
    <3> QED BY <3>1, <3>2
  <2>5. \A j \in Key : BucketIsSound(bucket'[j], granted'["upload"][j], now')
    BY <1>3, <1>10, <1>11, <2>3, <2>4 DEF LimitsInv
  <2>6. LimitsType'
    BY <1>10, <1>11, <2>1, <2>3 DEF LimitsInv, LimitsType
  <2> QED BY <2>1, <2>5, <2>6 DEF LimitsInv
<1>13. CASE ~(f.tokens > 0)
  <2>1. granted' = granted /\ refused' = {<<"upload", k>>}
    BY <1>10, <1>13 DEF Answer
  <2>2. b.since # Never /\ t - b.since < Refill /\ f = b
    BY <1>5, <1>7, <1>13 DEF Never
  <2>3. c.tokens = b.tokens /\ c.since = b.since /\ b.tokens = 0
    BY <1>5, <1>9, <1>13, <2>2
  <2>4. BucketIsSound(c, g, t)
    BY <1>4, <2>3 DEF BucketIsSound, Used
  <2>5. \A j \in Key : BucketIsSound(bucket'[j], granted'["upload"][j], now')
    BY <1>2, <1>3, <1>10, <1>11, <2>1, <2>4 DEF LimitsInv
  <2>6. LimitsType'
    BY <1>10, <1>11, <2>1 DEF LimitsInv, LimitsType, Limiter
  <2>7. \A j \in Key : <<"upload", j>> \in refused' =>
          bucket'[j].tokens = 0 /\ now' - bucket'[j].since < Refill
    BY <1>3, <1>10, <1>11, <2>1, <2>2, <2>3
  <2> QED BY <2>5, <2>6, <2>7 DEF LimitsInv
<1> QED BY <1>12, <1>13

\* No step leaves the invariant.
LEMMA LimitsStep ==
    ASSUME LimitsInv, [LimitsNext]_limitsVars
    PROVE  LimitsInv'
<1>1. CASE Tick
  <2>1. now' = now + 1 /\ refused' = {} /\ UNCHANGED <<bucket, granted>>
    BY <1>1 DEF Tick
  <2>2. LimitsType'
    BY <2>1 DEF LimitsInv, LimitsType
  <2>3. ASSUME NEW k \in Key PROVE BucketIsSound(bucket[k], granted["upload"][k], now)'
    <3>1. PICK b \in Bucket, g \in Seq(Nat), t \in Nat :
            b = bucket[k] /\ g = granted["upload"][k] /\ t = now
      BY DEF LimitsInv, LimitsType, Limiter
    <3>2. BucketIsSound(b, g, t + 1)
      BY <3>1, LaterIsSound DEF LimitsInv
    <3> QED BY <2>1, <3>1, <3>2
  <2> QED BY <2>1, <2>2, <2>3 DEF LimitsInv
<1>2. ASSUME NEW k \in Key, CheckUpload(k) PROVE LimitsInv'
  BY <1>2, UploadCheckIsSound
<1>3. ASSUME NEW k \in Key, CheckLogin(k) PROVE LimitsInv'
  <2>1. PICK ok \in BOOLEAN : Answer("login", k, ok) /\ UNCHANGED <<now, bucket>>
    <3>1. PICK ok : ok = (Len(Recent(k)) < MaxLogins)
      OBVIOUS
    <3>2. ok \in BOOLEAN
      BY <3>1
    <3>3. Answer("login", k, ok) /\ UNCHANGED <<now, bucket>>
      BY <1>3, <3>1 DEF CheckLogin
    <3> QED BY <3>2, <3>3
  <2> QED BY <2>1, OtherLimiter DEF Limiter
<1>4. ASSUME NEW k \in Key, Typing(k) PROVE LimitsInv'
  <2>1. PICK ok \in BOOLEAN : Answer("typing", k, ok) /\ UNCHANGED <<now, bucket>>
    BY <1>4 DEF Typing
  <2> QED BY <2>1, OtherLimiter DEF Limiter
<1>5. CASE UNCHANGED limitsVars
  BY <1>5 DEF limitsVars, LimitsInv, LimitsType, BucketIsSound, Used
<1> QED BY <1>1, <1>2, <1>3, <1>4, <1>5 DEF LimitsNext

\* Who is refused has sent a burst since the bucket was filled.
LEMMA RefusedSentBurst ==
    ASSUME LimitsInv, NEW k \in Key, <<"upload", k>> \in refused
    PROVE  GrantedWithin("upload", k, Refill) >= Burst
<1> USE LimitsAssumption
<1>1. PICK b \in Bucket, g \in Seq(Nat), t \in Nat :
        /\ b = bucket[k] /\ g = granted["upload"][k] /\ t = now
        /\ BucketIsSound(b, g, t)
        /\ b.tokens = 0 /\ t - b.since < Refill
  BY DEF LimitsInv, LimitsType, Limiter
<1>2. /\ Used(b) = Burst /\ Len(g) \in Nat /\ Burst <= Len(g)
      /\ b.since \in Nat /\ DOMAIN g = 1 .. Len(g)
      /\ \A i \in 1 .. Len(g) : g[i] \in Nat
  <2>1. Used(b) = Burst /\ b.since \in Nat
    BY <1>1 DEF BucketIsSound, Used, Bucket
  <2>2. Len(g) \in Nat /\ DOMAIN g = 1 .. Len(g) /\ \A i \in 1 .. Len(g) : g[i] \in Nat
    OBVIOUS
  <2>3. Burst <= Len(g)
    BY <1>1, <2>1 DEF BucketIsSound
  <2> QED BY <2>1, <2>2, <2>3
<1> DEFINE n == Len(g)
           Last == n - Burst + 1 .. n
           Within == {i \in DOMAIN g : t - g[i] < Refill}
<1>3. Last \subseteq Within
  <2>0. SUFFICES ASSUME NEW i \in Last PROVE i \in 1 .. n /\ t - g[i] < Refill
    BY <1>2
  <2>3. /\ b.since \in Nat /\ t - b.since < Refill
        /\ Refill \in Nat
    BY <1>1, <1>2
  <2>1. i \in 1 .. n /\ i > n - Burst
    BY <1>2
  <2>2. g[i] >= b.since /\ g[i] \in Nat
    BY <1>1, <1>2, <2>1 DEF BucketIsSound
  <2>4. t - g[i] < Refill
    BY <2>2, <2>3, LaterIsYounger
  <2> QED BY <2>1, <2>4
<1>4. IsFiniteSet(Last) /\ Cardinality(Last) = Burst
  <2>1. n - Burst + 1 \in Int /\ n \in Int /\ n - Burst + 1 <= n
    BY <1>2
  <2> QED BY <2>1, FS_Interval
<1>5. IsFiniteSet(Within)
  <2>1. IsFiniteSet(1 .. n)
    BY <1>2, FS_Interval
  <2>2. Within \subseteq 1 .. n
    BY <1>2
  <2> QED BY <2>1, <2>2, FS_Subset
<1>6. Cardinality(Within) >= Burst
  <2>1. Cardinality(Last) <= Cardinality(Within)
    BY <1>3, <1>5, FS_Subset
  <2> HIDE DEF Last, Within
  <2>2. Cardinality(Within) \in Nat
    BY <1>5, FS_CardinalityType
  <2> QED BY <1>4, <2>1, <2>2
<1>7. GrantedWithin("upload", k, Refill) = Cardinality(Within)
  BY <1>1 DEF GrantedWithin
<1> QED BY <1>6, <1>7

\* Whatever the moments at which uploads come: twice the burst at most passes
\* in any Refill, and who is refused has sent a burst in the last one.
THEOREM UploadsStayLimited == LimitsSpec => []UploadLimit
<1>1. LimitsInit => LimitsInv
  <2> SUFFICES ASSUME LimitsInit PROVE LimitsInv
    OBVIOUS
  <2> USE LimitsAssumption
  <2>1. [tokens |-> Burst, since |-> Never] \in Bucket
    BY DEF Bucket
  <2>2. LimitsType
    BY <2>1 DEF LimitsInit, LimitsType
  <2>3. \A k \in Key : BucketIsSound(bucket[k], granted["upload"][k], now)
    BY DEF LimitsInit, BucketIsSound, Used, Limiter, Never
  <2> QED BY <2>2, <2>3 DEF LimitsInit, LimitsInv
<1>2. LimitsInv /\ [LimitsNext]_limitsVars => LimitsInv'
  BY LimitsStep
<1>3. LimitsInv => UploadLimit
  <2> SUFFICES ASSUME LimitsInv, NEW k \in Key
               PROVE  /\ \A i \in 1 .. Len(granted["upload"][k]) - 2 * Burst :
                             granted["upload"][k][i + 2 * Burst]
                                 - granted["upload"][k][i] >= Refill
                      /\ <<"upload", k>> \in refused =>
                             GrantedWithin("upload", k, Refill) >= Burst
    BY DEF UploadLimit, Fair
  <2>1. BucketIsSound(bucket[k], granted["upload"][k], now)
    BY DEF LimitsInv
  <2> QED BY <2>1, RefusedSentBurst DEF BucketIsSound
<1> QED BY <1>1, <1>2, <1>3, PTL DEF LimitsSpec

-----------------------------------------------------------------------------
\* The times at which a key passed, at time t: in their order, and of any most
\* + 1 in a row the last one is a whole window after the first.
HistoryIsSound(g, t, most, window) ==
    /\ \A i \in 1 .. Len(g) : g[i] <= t
    /\ \A i, j \in 1 .. Len(g) : i < j => g[i] <= g[j]
    /\ \A i \in 1 .. Len(g) - most : g[i + most] - g[i] >= window

\* The attempts a kept of the times g: the last ones, and those before are a
\* whole window old.
AttemptsAreLast(a, g, t) ==
    /\ Len(a) <= MaxLogins /\ Len(a) <= Len(g)
    /\ \A i \in 1 .. Len(a) : a[i] = g[Len(g) - Len(a) + i]
    /\ \A i \in 1 .. Len(g) - Len(a) : t - g[i] >= LoginWindow

LoginIsSound(k) ==
    /\ HistoryIsSound(granted["login"][k], now, MaxLogins, LoginWindow)
    /\ AttemptsAreLast(attempts[k], granted["login"][k], now)
    /\ <<"login", k>> \in refused =>
          /\ Len(attempts[k]) = MaxLogins
          /\ \A i \in 1 .. Len(attempts[k]) : now - attempts[k][i] < LoginWindow

TypingIsSound(k) ==
    /\ HistoryIsSound(granted["typing"][k], now, 1, Debounce)
    /\ IF granted["typing"][k] = <<>>
       THEN typed[k] = Never
       ELSE typed[k] = granted["typing"][k][Len(granted["typing"][k])]
    /\ <<"typing", k>> \in refused => typed[k] # Never /\ now - typed[k] < Debounce

SlidingInv ==
    /\ LimitsTypeOK
    /\ \A k \in Key : LoginIsSound(k) /\ TypingIsSound(k)

\* One more time, a window after the one that came most before it, if there
\* is one.
LEMMA LongerIsSound ==
    ASSUME NEW g \in Seq(Time), NEW t \in Time, NEW most \in Nat \ {0},
           NEW window \in Nat, HistoryIsSound(g, t, most, window),
           Len(g) >= most => t - g[Len(g) + 1 - most] >= window,
           NEW h, h = Append(g, t)
    PROVE  HistoryIsSound(h, t, most, window)
<1> USE LimitsAssumption DEF Time
<1>1. /\ h \in Seq(Time) /\ Len(h) = Len(g) + 1 /\ h[Len(g) + 1] = t
      /\ Len(g) \in Nat /\ \A i \in 1 .. Len(g) : h[i] = g[i] /\ g[i] \in Time
  BY AppendProperties
<1>2. /\ \A i \in 1 .. Len(g) : g[i] <= t
      /\ \A i, j \in 1 .. Len(g) : i < j => g[i] <= g[j]
      /\ \A i \in 1 .. Len(g) - most : g[i + most] - g[i] >= window
  BY DEF HistoryIsSound
<1>3. \A i \in 1 .. Len(h) : h[i] <= t
  BY <1>1, <1>2
<1>4. ASSUME NEW i \in 1 .. Len(h), NEW j \in 1 .. Len(h), i < j
      PROVE  h[i] <= h[j]
  <2>1. i \in 1 .. Len(g) /\ h[i] = g[i]
    BY <1>1, <1>4
  <2>2. CASE j = Len(g) + 1
    BY <1>1, <1>2, <2>1, <2>2
  <2>3. CASE j # Len(g) + 1
    <3>1. j \in 1 .. Len(g) /\ h[j] = g[j]
      BY <1>1, <2>3
    <3> QED BY <1>2, <1>4, <2>1, <3>1
  <2> QED BY <2>2, <2>3
<1>5. \A i \in 1 .. Len(h) - most : h[i + most] - h[i] >= window
  <2> SUFFICES ASSUME NEW i \in 1 .. Len(h) - most
               PROVE  h[i + most] - h[i] >= window
    OBVIOUS
  <2>1. i \in 1 .. Len(g)
    BY <1>1
  <2>2. CASE i + most = Len(g) + 1
    <3>1. i = Len(g) + 1 - most /\ Len(g) >= most
      BY <1>1, <2>1, <2>2
    <3> QED BY <1>1, <2>1, <2>2, <3>1
  <2>3. CASE i + most # Len(g) + 1
    <3>1. PICK n \in Nat : n = Len(g) /\ Len(h) = n + 1
      BY <1>1
    <3>2. i \in 1 .. (n + 1) - most /\ i + most # n + 1
      BY <2>3, <3>1
    <3>3. i \in 1 .. n - most /\ i + most \in 1 .. n
      BY <3>2
    <3> QED BY <1>1, <1>2, <2>1, <3>1, <3>3
  <2> QED BY <2>2, <2>3
<1> QED BY <1>3, <1>4, <1>5 DEF HistoryIsSound

\* The times inside the window are at least those of a stretch that is.
LEMMA WithinCount ==
    ASSUME NEW l \in Limiter, NEW k \in Key, NEW window,
           NEW g \in Seq(Time), g = granted[l][k],
           NEW lo \in 1 .. Len(g) + 1,
           \A i \in lo .. Len(g) : now - g[i] < window
    PROVE  GrantedWithin(l, k, window) >= Len(g) - lo + 1
<1> DEFINE Within == {i \in DOMAIN g : now - g[i] < window}
           Last == lo .. Len(g)
<1>1. Len(g) \in Nat /\ DOMAIN g = 1 .. Len(g) /\ lo \in Nat /\ lo <= Len(g) + 1
  OBVIOUS
<1>2. Last \subseteq Within
  BY <1>1
<1>3. IsFiniteSet(Within)
  <2>1. Within \in SUBSET (1 .. Len(g)) /\ IsFiniteSet(1 .. Len(g))
    BY <1>1, FS_Interval
  <2> QED BY <2>1, FS_Subset
<1>4. Cardinality(Last) = Len(g) - lo + 1
  <2>1. lo \in Int /\ Len(g) \in Int
    BY <1>1
  <2>2. Cardinality(Last) = IF lo > Len(g) THEN 0 ELSE Len(g) - lo + 1
    BY <2>1, FS_Interval
  <2> QED BY <1>1, <2>2
<1>5. Cardinality(Last) <= Cardinality(Within)
  BY <1>2, <1>3, FS_Subset
<1>6. GrantedWithin(l, k, window) = Cardinality(Within)
  BY DEF GrantedWithin
<1>7. Cardinality(Within) \in Nat
  BY <1>3, FS_CardinalityType
<1> HIDE DEF Within, Last
<1> QED BY <1>1, <1>4, <1>5, <1>6, <1>7

\* Places of a list, counted from the front of a longer one that it ends.
LEMMA ShiftedPlaces ==
    ASSUME NEW m \in Nat, NEW n \in Nat, m <= n,
           NEW h \in 1 .. m, NEW i \in 1 .. m, h < i
    PROVE  /\ n - m + h \in 1 .. n /\ n - m + i \in 1 .. n
           /\ n - m + h < n - m + i
  OBVIOUS

\* The attempts of the window are the last ones, and those forgotten are old.
LEMMA RecentIsLast ==
    ASSUME LimitsTypeOK, NEW k \in Key, LoginIsSound(k)
    PROVE  /\ Recent(k) \in Seq(Time)
           /\ AttemptsAreLast(Recent(k), granted["login"][k], now)
           /\ \A i \in 1 .. Len(Recent(k)) : now - Recent(k)[i] < LoginWindow
<1> USE LimitsAssumption
<1>0. PICK T : T = {t \in Time : now - t < LoginWindow}
  OBVIOUS
<1>1. PICK a \in Seq(Time), g \in Seq(Time) :
        a = attempts[k] /\ g = granted["login"][k]
  BY DEF LimitsTypeOK, Limiter
<1>2. /\ AttemptsAreLast(a, g, now)
      /\ \A i, j \in 1 .. Len(g) : i < j => g[i] <= g[j]
  BY <1>1 DEF LoginIsSound, HistoryIsSound
<1>3. /\ Len(a) \in Nat /\ Len(g) \in Nat /\ Len(a) <= Len(g)
      /\ \A i \in 1 .. Len(a) : a[i] \in Time
      /\ \A i \in 1 .. Len(g) : g[i] \in Time
      /\ \A i \in 1 .. Len(a) : a[i] = g[Len(g) - Len(a) + i]
  BY <1>2 DEF AttemptsAreLast
<1>4. now \in Nat /\ Time \subseteq Nat
  BY DEF LimitsTypeOK, Time
<1>5. ASSUME NEW h \in 1 .. Len(a), NEW i \in 1 .. Len(a), h < i, a[h] \in T
      PROVE  a[i] \in T
  <2> HIDE LimitsAssumption
  <2>1. PICK d : d = Len(g) - Len(a)
    OBVIOUS
  <2>2. d + h \in 1 .. Len(g) /\ d + i \in 1 .. Len(g) /\ d + h < d + i
    BY <1>3, <1>5, <2>1, ShiftedPlaces
  <2>3. a[h] = g[d + h] /\ a[i] = g[d + i]
    BY <1>3, <2>1
  <2>4. g[d + h] <= g[d + i]
    BY <1>2, <2>2
  <2>5. a[h] \in Nat /\ a[i] \in Time /\ a[i] \in Nat /\ now - a[h] < LoginWindow
    BY <1>0, <1>3, <1>4, <1>5
  <2>6. now - a[i] < LoginWindow
    BY <1>4, <2>3, <2>4, <2>5, LimitsAssumption
  <2> QED BY <1>0, <2>5, <2>6
<1> HIDE LimitsAssumption
<1>6. PICK r : r = Kept(a, T)
  OBVIOUS
<1>7. /\ r \in Seq(Time)
      /\ \E c \in 0 .. Len(a) :
            /\ Len(r) = Len(a) - c
            /\ \A i \in 1 .. c : a[i] \notin T
            /\ \A j \in 1 .. Len(a) - c : r[j] = a[c + j] /\ a[c + j] \in T
  <2>1. /\ Kept(a, T) \in Seq(Time)
        /\ \E c \in 0 .. Len(a) :
              /\ Len(Kept(a, T)) = Len(a) - c
              /\ \A i \in 1 .. c : a[i] \notin T
              /\ \A j \in 1 .. Len(a) - c :
                    Kept(a, T)[j] = a[c + j] /\ a[c + j] \in T
    BY <1>5, KeptSuffix, Zenon
  <2> QED BY <1>6, <2>1, Zenon
<1>8. r = Recent(k)
  BY <1>0, <1>1, <1>6 DEF Recent
<1> USE LimitsAssumption
<1>11. PICK c \in 0 .. Len(a) :
         /\ Len(r) = Len(a) - c
         /\ \A i \in 1 .. c : a[i] \notin T
         /\ \A j \in 1 .. Len(a) - c : r[j] = a[c + j] /\ a[c + j] \in T
  BY <1>7
<1>12. r \in Seq(Time)
  BY <1>7
<1>9. \A i \in 1 .. Len(r) : now - r[i] < LoginWindow
  BY <1>0, <1>11, <1>12
<1>10. AttemptsAreLast(r, g, now)
  <2>1. Len(r) \in Nat /\ Len(r) <= MaxLogins /\ Len(r) <= Len(g)
    BY <1>2, <1>3, <1>11, <1>12 DEF AttemptsAreLast
  <2>2. ASSUME NEW i \in 1 .. Len(r) PROVE r[i] = g[Len(g) - Len(r) + i]
    <3>1. c + i \in 1 .. Len(a) /\ r[i] = a[c + i]
      BY <1>3, <1>11, <1>12
    <3>2. a[c + i] = g[Len(g) - Len(a) + (c + i)]
      BY <1>3, <3>1
    <3>3. Len(g) - Len(a) + (c + i) = Len(g) - Len(r) + i
      BY <1>3, <1>11, <1>12
    <3> QED BY <3>1, <3>2, <3>3
  <2>3. ASSUME NEW i \in 1 .. Len(g) - Len(r) PROVE now - g[i] >= LoginWindow
    <3>1. CASE i <= Len(g) - Len(a)
      BY <1>2, <1>3, <3>1 DEF AttemptsAreLast
    <3>2. CASE i > Len(g) - Len(a)
      <4>1. PICK j : j = i - (Len(g) - Len(a))
        OBVIOUS
      <4>2. j \in 1 .. c /\ j \in 1 .. Len(a) /\ i = Len(g) - Len(a) + j
        BY <1>3, <1>11, <1>12, <3>2, <4>1
      <4>3. a[j] \notin T
        BY <1>11, <1>12, <4>2
      <4>4. a[j] = g[i] /\ a[j] \in Time
        BY <1>3, <4>2
      <4>5. a[j] \in Nat /\ ~(now - a[j] < LoginWindow)
        BY <1>0, <1>4, <4>3, <4>4
      <4> QED BY <1>4, <4>4, <4>5
    <3> QED BY <1>3, <2>1, <3>1, <3>2
  <2> QED BY <2>1, <2>2, <2>3 DEF AttemptsAreLast
<1> QED BY <1>1, <1>8, <1>9, <1>10, <1>12

\* An answer of a limiter to a key: the history of the others stays.
LEMMA AnswerEffect ==
    ASSUME LimitsTypeOK, NEW l \in Limiter, NEW k \in Key, NEW ok \in BOOLEAN,
           Answer(l, k, ok)
    PROVE  /\ granted' \in [Limiter -> [Key -> Seq(Time)]]
           /\ refused' \subseteq Limiter \X Key
           /\ refused' \subseteq {<<l, k>>}
           /\ ok => refused' = {} /\ granted'[l][k] = Append(granted[l][k], now)
           /\ ~ok => granted' = granted
           /\ \A m \in Limiter, j \in Key :
                 m # l \/ j # k => granted'[m][j] = granted[m][j]
<1>1. refused' \subseteq {<<l, k>>} /\ refused' \subseteq Limiter \X Key
  BY DEF Answer
<1>2. CASE ok
  <2>0. granted[l][k] \in Seq(Time) /\ now \in Time
    BY DEF LimitsTypeOK
  <2>1. PICK h \in Seq(Time) : h = Append(granted[l][k], now)
    BY <2>0, AppendProperties
  <2>2. granted' = [granted EXCEPT ![l][k] = h] /\ refused' = {}
    BY <1>2, <2>1 DEF Answer
  <2>3. granted'[l][k] = h /\ granted' \in [Limiter -> [Key -> Seq(Time)]]
    BY <2>1, <2>2 DEF LimitsTypeOK
  <2>4. \A m \in Limiter, j \in Key :
          m # l \/ j # k => granted'[m][j] = granted[m][j]
    BY <2>2 DEF LimitsTypeOK
  <2> QED BY <1>1, <1>2, <2>1, <2>2, <2>3, <2>4
<1>3. CASE ~ok
  <2>1. granted' = granted
    BY <1>3 DEF Answer
  <2> QED BY <1>1, <1>3, <2>1 DEF LimitsTypeOK
<1> QED BY <1>2, <1>3

\* What a key has been let do is as sound later on.
LEMMA SoundLater ==
    ASSUME NEW g \in Seq(Time), NEW a \in Seq(Time), NEW t \in Time, NEW s \in Time,
           t <= s, NEW most \in Nat \ {0}, NEW window \in Nat
    PROVE  /\ HistoryIsSound(g, t, most, window) => HistoryIsSound(g, s, most, window)
           /\ AttemptsAreLast(a, g, t) => AttemptsAreLast(a, g, s)
<1> USE LimitsAssumption
<1>1. \A i \in 1 .. Len(g) : g[i] \in Nat
  BY DEF Time
<1>2. t \in Nat /\ s \in Nat
  BY DEF Time
<1>3. HistoryIsSound(g, t, most, window) => HistoryIsSound(g, s, most, window)
  BY <1>1, <1>2 DEF HistoryIsSound
<1>4. AttemptsAreLast(a, g, t) => AttemptsAreLast(a, g, s)
  <2> SUFFICES ASSUME AttemptsAreLast(a, g, t) PROVE AttemptsAreLast(a, g, s)
    OBVIOUS
  <2>1. ASSUME NEW i \in 1 .. Len(g) - Len(a) PROVE s - g[i] >= LoginWindow
    <3>1. i \in 1 .. Len(g) /\ t - g[i] >= LoginWindow
      BY DEF AttemptsAreLast
    <3> QED BY <1>1, <1>2, <3>1
  <2> QED BY <2>1 DEF AttemptsAreLast
<1> QED BY <1>3, <1>4

\* A key that is not asked about stays as it is.
LEMMA UntouchedIsSound ==
    ASSUME NEW j \in Key, now' = now
    PROVE  /\ LoginIsSound(j) /\ granted'["login"][j] = granted["login"][j]
              /\ attempts'[j] = attempts[j] /\ <<"login", j>> \notin refused'
              => LoginIsSound(j)'
           /\ TypingIsSound(j) /\ granted'["typing"][j] = granted["typing"][j]
              /\ typed'[j] = typed[j] /\ <<"typing", j>> \notin refused'
              => TypingIsSound(j)'
<1>1. LoginIsSound(j) /\ granted'["login"][j] = granted["login"][j]
      /\ attempts'[j] = attempts[j] /\ <<"login", j>> \notin refused'
      => LoginIsSound(j)'
  BY DEF LoginIsSound, HistoryIsSound, AttemptsAreLast
<1>2. TypingIsSound(j) /\ granted'["typing"][j] = granted["typing"][j]
      /\ typed'[j] = typed[j] /\ <<"typing", j>> \notin refused'
      => TypingIsSound(j)'
  BY DEF TypingIsSound, HistoryIsSound
<1> QED BY <1>1, <1>2

\* An attempt to log in passes or is refused.
LEMMA LoginStep ==
    ASSUME SlidingInv, NEW k \in Key, CheckLogin(k)
    PROVE  SlidingInv'
<1> USE LimitsAssumption
<1>1. PICK r \in Seq(Time), g \in Seq(Time), t \in Time :
        r = Recent(k) /\ g = granted["login"][k] /\ t = now
  BY RecentIsLast DEF SlidingInv, LimitsTypeOK, Limiter
<1>2. /\ AttemptsAreLast(r, g, t) /\ HistoryIsSound(g, t, MaxLogins, LoginWindow)
      /\ \A i \in 1 .. Len(r) : t - r[i] < LoginWindow
  BY <1>1, RecentIsLast DEF SlidingInv, LoginIsSound
<1>3. PICK ok \in BOOLEAN : ok <=> Len(r) < MaxLogins
  OBVIOUS
<1>4. PICK a : a = IF ok THEN Append(r, t) ELSE r
  OBVIOUS
<1>5. /\ attempts' = [attempts EXCEPT ![k] = a] /\ Answer("login", k, ok)
      /\ UNCHANGED <<now, bucket, typed>>
  <2>1. attempts' = [attempts EXCEPT ![k] = a]
    BY <1>1, <1>3, <1>4 DEF CheckLogin
  <2>2. Answer("login", k, ok)
    <3>1. Answer("login", k, Len(r) < MaxLogins)
      BY <1>1 DEF CheckLogin
    <3> QED BY <1>3, <3>1 DEF Answer
  <2> QED BY <2>1, <2>2 DEF CheckLogin
<1>6. Len(r) \in Nat /\ Len(g) \in Nat /\ Len(r) <= Len(g) /\ Len(r) <= MaxLogins
  BY <1>2 DEF AttemptsAreLast
<1>7. a \in Seq(Time) /\ Len(a) <= MaxLogins
  <2>1. Append(r, t) \in Seq(Time) /\ Len(Append(r, t)) = Len(r) + 1
    BY AppendProperties
  <2> QED BY <1>3, <1>4, <1>6, <2>1
<1>8. PICK h \in Seq(Time) : h = granted'["login"][k]
  BY <1>5, AnswerEffect DEF SlidingInv, Limiter
<1>9. LimitsTypeOK'
  <2>1. /\ attempts' \in [Key -> Seq(Time)]
        /\ \A j \in Key : Len(attempts'[j]) <= MaxLogins
    BY <1>5, <1>7 DEF SlidingInv, LimitsTypeOK
  <2>2. /\ granted' \in [Limiter -> [Key -> Seq(Time)]]
        /\ refused' \subseteq Limiter \X Key
    BY <1>5, AnswerEffect DEF SlidingInv, Limiter
  <2> QED BY <1>5, <2>1, <2>2 DEF SlidingInv, LimitsTypeOK
<1>10. attempts'[k] = a /\ \A j \in Key \ {k} : attempts'[j] = attempts[j]
  BY <1>5 DEF SlidingInv, LimitsTypeOK
<1>11. CASE ok
  <2>1. h = Append(g, t) /\ refused' = {}
    BY <1>1, <1>5, <1>8, <1>11, AnswerEffect DEF SlidingInv, Limiter
  <2>2. HistoryIsSound(h, t, MaxLogins, LoginWindow)
    <3>1. ASSUME Len(g) >= MaxLogins
          PROVE  t - g[Len(g) + 1 - MaxLogins] >= LoginWindow
      <4>1. Len(g) + 1 - MaxLogins \in 1 .. Len(g) - Len(r)
        BY <1>3, <1>6, <1>11, <3>1
      <4> QED BY <1>2, <4>1 DEF AttemptsAreLast
    <3> QED BY <1>2, <2>1, <3>1, LongerIsSound
  <2>3. AttemptsAreLast(a, h, t)
    <3>1. /\ Len(a) = Len(r) + 1 /\ a[Len(r) + 1] = t
          /\ \A i \in 1 .. Len(r) : a[i] = r[i]
      BY <1>4, <1>11, AppendProperties
    <3>2. /\ Len(h) = Len(g) + 1 /\ h[Len(g) + 1] = t
          /\ \A i \in 1 .. Len(g) : h[i] = g[i]
      BY <2>1, AppendProperties
    <3>3. ASSUME NEW i \in 1 .. Len(a) PROVE a[i] = h[Len(h) - Len(a) + i]
      <4>1. Len(h) - Len(a) = Len(g) - Len(r)
        BY <1>6, <3>1, <3>2
      <4>2. CASE i = Len(r) + 1
        <5>1. Len(h) - Len(a) + i = Len(g) + 1
          <6>1. \A m, n \in Nat : m - n + (n + 1) = m + 1
            OBVIOUS
          <6> QED BY <1>6, <4>1, <4>2, <6>1
        <5> QED BY <3>1, <3>2, <4>2, <5>1
      <4>3. CASE i # Len(r) + 1
        <5>1. i \in 1 .. Len(r) /\ Len(g) - Len(r) + i \in 1 .. Len(g)
          BY <1>6, <3>1, <4>3
        <5>2. a[i] = r[i] /\ r[i] = g[Len(g) - Len(r) + i]
          BY <1>2, <3>1, <5>1 DEF AttemptsAreLast
        <5> QED BY <3>2, <4>1, <5>1, <5>2
      <4> QED BY <4>2, <4>3
    <3>4. ASSUME NEW i \in 1 .. Len(h) - Len(a) PROVE t - h[i] >= LoginWindow
      <4>1. i \in 1 .. Len(g) - Len(r) /\ i \in 1 .. Len(g)
        BY <1>6, <3>1, <3>2
      <4> QED BY <1>2, <3>2, <4>1 DEF AttemptsAreLast
    <3> QED BY <1>6, <1>7, <3>1, <3>2, <3>3, <3>4 DEF AttemptsAreLast
  <2>4. LoginIsSound(k)'
    BY <1>1, <1>5, <1>8, <1>10, <2>1, <2>2, <2>3 DEF LoginIsSound
  <2>5. ASSUME NEW j \in Key \ {k} PROVE LoginIsSound(j)'
    <3>1. granted'["login"][j] = granted["login"][j]
      BY <1>5, AnswerEffect DEF SlidingInv, Limiter
    <3> QED BY <1>5, <1>10, <2>1, <3>1, UntouchedIsSound DEF SlidingInv
  <2>6. ASSUME NEW j \in Key PROVE TypingIsSound(j)'
    <3>1. granted'["typing"][j] = granted["typing"][j]
      BY <1>5, AnswerEffect DEF SlidingInv, Limiter
    <3> QED BY <1>5, <2>1, <3>1, UntouchedIsSound DEF SlidingInv
  <2> QED BY <1>9, <2>4, <2>5, <2>6 DEF SlidingInv
<1>12. CASE ~ok
  <2>1. h = g /\ a = r /\ granted' = granted
    BY <1>1, <1>4, <1>5, <1>8, <1>12, AnswerEffect DEF SlidingInv, Limiter
  <2>2. refused' \subseteq {<<"login", k>>}
    BY <1>5, AnswerEffect DEF SlidingInv, Limiter
  <2>3. Len(a) = MaxLogins /\ \A i \in 1 .. Len(a) : t - a[i] < LoginWindow
    BY <1>2, <1>3, <1>6, <1>12, <2>1
  <2>4. LoginIsSound(k)'
    BY <1>1, <1>2, <1>5, <1>8, <1>10, <2>1, <2>3 DEF LoginIsSound
  <2>5. ASSUME NEW j \in Key \ {k} PROVE LoginIsSound(j)'
    BY <1>5, <1>10, <2>1, <2>2, UntouchedIsSound DEF SlidingInv
  <2>6. ASSUME NEW j \in Key PROVE TypingIsSound(j)'
    BY <1>5, <2>1, <2>2, UntouchedIsSound DEF SlidingInv
  <2> QED BY <1>9, <2>4, <2>5, <2>6 DEF SlidingInv
<1> QED BY <1>11, <1>12

\* A typing notice is sent or left out.
LEMMA TypingStep ==
    ASSUME SlidingInv, NEW k \in Key, Typing(k)
    PROVE  SlidingInv'
<1> USE LimitsAssumption
<1>1. PICK g \in Seq(Time), t \in Time : g = granted["typing"][k] /\ t = now
  BY DEF SlidingInv, LimitsTypeOK, Limiter
<1>2. HistoryIsSound(g, t, 1, Debounce)
  BY <1>1 DEF SlidingInv, TypingIsSound
<1>3. PICK ok \in BOOLEAN : ok <=> (typed[k] = Never \/ t - typed[k] >= Debounce)
  OBVIOUS
<1>4. /\ typed' = (IF ok THEN [typed EXCEPT ![k] = t] ELSE typed)
      /\ Answer("typing", k, ok) /\ UNCHANGED <<now, bucket, attempts>>
  <2>1. typed' = (IF ok THEN [typed EXCEPT ![k] = t] ELSE typed)
    BY <1>1, <1>3 DEF Typing
  <2>2. Answer("typing", k, typed[k] = Never \/ t - typed[k] >= Debounce)
    BY <1>1 DEF Typing
  <2>3. Answer("typing", k, ok)
    BY <1>3, <2>2 DEF Answer
  <2> QED BY <2>1, <2>3 DEF Typing
<1>5. PICK h \in Seq(Time) : h = granted'["typing"][k]
  BY <1>4, AnswerEffect DEF SlidingInv, Limiter
<1>6. LimitsTypeOK'
  <2>1. typed' \in [Key -> Time \cup {Never}]
    BY <1>4 DEF SlidingInv, LimitsTypeOK
  <2>2. /\ granted' \in [Limiter -> [Key -> Seq(Time)]]
        /\ refused' \subseteq Limiter \X Key
    BY <1>4, AnswerEffect DEF SlidingInv, Limiter
  <2> QED BY <1>4, <2>1, <2>2 DEF SlidingInv, LimitsTypeOK
<1>7. \A j \in Key \ {k} : typed'[j] = typed[j]
  BY <1>4 DEF SlidingInv, LimitsTypeOK
<1>8. typed[k] \in Time \cup {Never}
  BY DEF SlidingInv, LimitsTypeOK
<1>9. TypingIsSound(k)'
  <2>1. CASE ok
    <3>1. h = Append(g, t) /\ refused' = {}
      BY <1>1, <1>4, <1>5, <2>1, AnswerEffect DEF SlidingInv, Limiter
    <3>2. typed'[k] = t
      BY <1>4, <2>1 DEF SlidingInv, LimitsTypeOK
    <3>3. Len(h) = Len(g) + 1 /\ h[Len(h)] = t /\ h # <<>>
      BY <3>1, AppendProperties
    <3>4. HistoryIsSound(h, t, 1, Debounce)
      <4>1. ASSUME Len(g) >= 1 PROVE t - g[Len(g) + 1 - 1] >= Debounce
        <5>0. g # <<>>
          BY <4>1
        <5>1. typed[k] = g[Len(g)]
          BY <1>1, <5>0 DEF SlidingInv, TypingIsSound
        <5>2. g[Len(g)] \in Time /\ Never \notin Time
          BY <4>1 DEF Time, Never
        <5>3. t - g[Len(g)] >= Debounce
          BY <1>3, <2>1, <5>1, <5>2
        <5> QED BY <5>3
      <4>2. 1 \in Nat \ {0} /\ Debounce \in Nat
        OBVIOUS
      <4> QED BY <1>2, <3>1, <4>1, <4>2, LongerIsSound
    <3> QED BY <1>1, <1>4, <1>5, <3>1, <3>2, <3>3, <3>4 DEF TypingIsSound
  <2>2. CASE ~ok
    <3>1. typed' = typed /\ granted' = granted /\ now' = now
      BY <1>4, <2>2, AnswerEffect DEF SlidingInv, Limiter
    <3>2. typed[k] # Never /\ t - typed[k] < Debounce
      BY <1>3, <1>8, <2>2 DEF Time
    <3>3. TypingIsSound(k)
      BY DEF SlidingInv
    <3>4. HistoryIsSound(granted["typing"][k], now, 1, Debounce)'
      BY <3>1, <3>3 DEF TypingIsSound, HistoryIsSound
    <3> QED BY <1>1, <3>1, <3>2, <3>3, <3>4 DEF TypingIsSound
  <2> QED BY <2>1, <2>2
<1>10. refused' \subseteq {<<"typing", k>>}
  BY <1>4, AnswerEffect DEF SlidingInv, Limiter
<1>11. ASSUME NEW j \in Key \ {k} PROVE TypingIsSound(j)'
  <2>1. granted'["typing"][j] = granted["typing"][j]
    BY <1>4, AnswerEffect DEF SlidingInv, Limiter
  <2> QED BY <1>4, <1>7, <1>10, <2>1, UntouchedIsSound DEF SlidingInv
<1>12. ASSUME NEW j \in Key PROVE LoginIsSound(j)'
  <2>1. granted'["login"][j] = granted["login"][j]
    BY <1>4, AnswerEffect DEF SlidingInv, Limiter
  <2> QED BY <1>4, <1>10, <2>1, UntouchedIsSound DEF SlidingInv
<1> QED BY <1>6, <1>9, <1>11, <1>12 DEF SlidingInv

\* No step leaves the invariant of the sliding windows.
LEMMA SlidingStep ==
    ASSUME SlidingInv, [LimitsNext]_limitsVars
    PROVE  SlidingInv'
<1> USE LimitsAssumption
<1>1. CASE Tick
  <2>1. /\ now' = now + 1 /\ now' \in Time /\ refused' = {}
        /\ UNCHANGED <<bucket, attempts, typed, granted>>
    BY <1>1 DEF Tick, SlidingInv, LimitsTypeOK, Time
  <2>2. LimitsTypeOK'
    BY <2>1 DEF SlidingInv, LimitsTypeOK
  <2>3. ASSUME NEW k \in Key PROVE LoginIsSound(k)' /\ TypingIsSound(k)'
    <3>1. PICK g \in Seq(Time), a \in Seq(Time), f \in Seq(Time), t \in Time, s \in Time :
            /\ g = granted["login"][k] /\ a = attempts[k]
            /\ f = granted["typing"][k] /\ t = now /\ s = now' /\ t <= s
      BY <2>1 DEF SlidingInv, LimitsTypeOK, Limiter, Time
    <3>2. /\ HistoryIsSound(g, t, MaxLogins, LoginWindow) /\ AttemptsAreLast(a, g, t)
          /\ HistoryIsSound(f, t, 1, Debounce)
      BY <3>1 DEF SlidingInv, LoginIsSound, TypingIsSound
    <3>3. /\ HistoryIsSound(g, s, MaxLogins, LoginWindow) /\ AttemptsAreLast(a, g, s)
          /\ HistoryIsSound(f, s, 1, Debounce)
      <4>1. /\ MaxLogins \in Nat \ {0} /\ LoginWindow \in Nat
            /\ 1 \in Nat \ {0} /\ Debounce \in Nat
        OBVIOUS
      <4>2. HistoryIsSound(g, s, MaxLogins, LoginWindow) /\ AttemptsAreLast(a, g, s)
        BY <3>1, <3>2, <4>1, SoundLater
      <4>3. HistoryIsSound(f, s, 1, Debounce)
        BY <3>1, <3>2, <4>1, SoundLater
      <4> QED BY <4>2, <4>3
    <3>4. LoginIsSound(k)'
      BY <2>1, <3>1, <3>3 DEF LoginIsSound
    <3>5. TypingIsSound(k)'
      BY <2>1, <3>1, <3>3 DEF SlidingInv, TypingIsSound
    <3> QED BY <3>4, <3>5
  <2> QED BY <2>2, <2>3 DEF SlidingInv
<1>2. ASSUME NEW k \in Key, CheckUpload(k) PROVE SlidingInv'
  <2>1. PICK b : b = Refilled(bucket[k])
    OBVIOUS
  <2>2. /\ b.tokens \in 0 .. Burst /\ b.since \in Time \cup {Never}
        /\ b = [tokens |-> b.tokens, since |-> b.since]
    <3>1. PICK c \in [tokens : 0 .. Burst, since : Time \cup {Never}] : c = bucket[k]
      BY DEF SlidingInv, LimitsTypeOK
    <3> QED BY <2>1, <3>1 DEF Refilled, SlidingInv, LimitsTypeOK
  <2>3. PICK ok \in BOOLEAN : ok <=> b.tokens > 0
    OBVIOUS
  <2>4. PICK n \in 0 .. Burst : n = IF ok THEN b.tokens - 1 ELSE b.tokens
    BY <2>2, <2>3
  <2>5. Answer("upload", k, ok) /\ UNCHANGED <<now, attempts, typed>>
    <3>1. Answer("upload", k, b.tokens > 0) /\ UNCHANGED <<now, attempts, typed>>
      BY <1>2, <2>1 DEF CheckUpload
    <3> QED BY <2>3, <3>1 DEF Answer
  <2>6. bucket' = [bucket EXCEPT ![k] = [tokens |-> n, since |-> b.since]]
    <3>1. bucket' = [bucket EXCEPT ![k] = [b EXCEPT !.tokens = n]]
      BY <1>2, <2>1, <2>3, <2>4 DEF CheckUpload
    <3>2. [b EXCEPT !.tokens = n] = [tokens |-> n, since |-> b.since]
      BY <2>2
    <3> QED BY <3>1, <3>2
  <2>7. LimitsTypeOK'
    <3>1. bucket' \in [Key -> [tokens : 0 .. Burst, since : Time \cup {Never}]]
      BY <2>2, <2>6 DEF SlidingInv, LimitsTypeOK
    <3>2. /\ granted' \in [Limiter -> [Key -> Seq(Time)]]
          /\ refused' \subseteq Limiter \X Key
      BY <2>5, AnswerEffect DEF SlidingInv, Limiter
    <3> QED BY <2>5, <3>1, <3>2 DEF SlidingInv, LimitsTypeOK
  <2>8. ASSUME NEW j \in Key PROVE LoginIsSound(j)' /\ TypingIsSound(j)'
    <3>1. /\ granted'["login"][j] = granted["login"][j]
          /\ granted'["typing"][j] = granted["typing"][j]
          /\ refused' \subseteq {<<"upload", k>>}
      BY <2>5, AnswerEffect DEF SlidingInv, Limiter
    <3> QED BY <2>5, <3>1, UntouchedIsSound DEF SlidingInv
  <2> QED BY <2>7, <2>8 DEF SlidingInv
<1>3. ASSUME NEW k \in Key, CheckLogin(k) PROVE SlidingInv'
  BY <1>3, LoginStep
<1>4. ASSUME NEW k \in Key, Typing(k) PROVE SlidingInv'
  BY <1>4, TypingStep
<1>5. CASE UNCHANGED limitsVars
  <2>1. UNCHANGED <<now, bucket, attempts, typed, granted, refused>>
    BY <1>5 DEF limitsVars
  <2>2. LimitsTypeOK'
    BY <2>1 DEF SlidingInv, LimitsTypeOK
  <2>3. ASSUME NEW k \in Key PROVE LoginIsSound(k)' /\ TypingIsSound(k)'
    <3>1. LoginIsSound(k)'
      BY <2>1 DEF SlidingInv, LoginIsSound, HistoryIsSound, AttemptsAreLast
    <3>2. TypingIsSound(k)'
      BY <2>1 DEF SlidingInv, TypingIsSound, HistoryIsSound
    <3> QED BY <3>1, <3>2
  <2> QED BY <2>2, <2>3 DEF SlidingInv
<1> QED BY <1>1, <1>2, <1>3, <1>4, <1>5 DEF LimitsNext

\* Nothing is counted at first.
LEMMA SlidingInit == LimitsInit => SlidingInv
<1> SUFFICES ASSUME LimitsInit PROVE SlidingInv
  OBVIOUS
<1> USE LimitsAssumption
<1>1. LimitsTypeOK
  BY DEF LimitsInit, LimitsTypeOK, Time
<1>2. \A k \in Key : LoginIsSound(k) /\ TypingIsSound(k)
  BY DEF LimitsInit, LoginIsSound, TypingIsSound, HistoryIsSound, AttemptsAreLast,
         Limiter
<1> QED BY <1>1, <1>2 DEF SlidingInv

\* The limiters keep their types, the attempts remembered never more than the
\* limit.
THEOREM LimitsTypesHold == LimitsSpec => []LimitsTypeOK
<1>1. SlidingInv /\ [LimitsNext]_limitsVars => SlidingInv'
  BY SlidingStep
<1>2. SlidingInv => LimitsTypeOK
  BY DEF SlidingInv
<1> QED BY <1>1, <1>2, SlidingInit, PTL DEF LimitsSpec

\* Whatever the moments at which a key tries: five attempts to log in and one
\* typing notice at most pass in any window, and who is refused had as many in
\* the last one.
THEOREM WindowsStayLimited == LimitsSpec => []SlidingLimits
<1> USE LimitsAssumption
<1>1. SlidingInv /\ [LimitsNext]_limitsVars => SlidingInv'
  BY SlidingStep
<1>2. SlidingInv => SlidingLimits
  <2> SUFFICES ASSUME SlidingInv PROVE SlidingLimits
    OBVIOUS
  <2>1. ASSUME NEW k \in Key, <<"login", k>> \in refused
        PROVE  GrantedWithin("login", k, LoginWindow) >= MaxLogins
    <3>1. PICK g \in Seq(Time), a \in Seq(Time) :
            g = granted["login"][k] /\ a = attempts[k]
      BY DEF SlidingInv, LimitsTypeOK, Limiter
    <3>2. /\ AttemptsAreLast(a, g, now) /\ Len(a) = MaxLogins
          /\ \A i \in 1 .. Len(a) : now - a[i] < LoginWindow
      BY <2>1, <3>1 DEF SlidingInv, LoginIsSound
    <3>3. Len(g) \in Nat /\ MaxLogins <= Len(g)
      BY <3>2 DEF AttemptsAreLast
    <3>4. PICK lo \in 1 .. Len(g) + 1 : lo = Len(g) - MaxLogins + 1
      <4>1. PICK n \in Nat, m \in Nat \ {0} : n = Len(g) /\ m = MaxLogins /\ m <= n
        BY <3>3
      <4>2. n - m + 1 \in 1 .. n + 1
        BY <4>1
      <4> QED BY <4>1, <4>2
    <3>5. ASSUME NEW i \in lo .. Len(g) PROVE now - g[i] < LoginWindow
      <4>1. i - (Len(g) - MaxLogins) \in 1 .. Len(a)
        BY <3>2, <3>3, <3>4
      <4>2. Len(g) - Len(a) + (i - (Len(g) - MaxLogins)) = i
        BY <3>2, <3>3
      <4>3. a[i - (Len(g) - MaxLogins)] = g[i]
        BY <3>2, <4>1, <4>2 DEF AttemptsAreLast
      <4> QED BY <3>2, <4>1, <4>3
    <3>6. GrantedWithin("login", k, LoginWindow) >= Len(g) - lo + 1
      BY <3>1, <3>5, WithinCount DEF Limiter
    <3> QED BY <3>3, <3>4, <3>6
  <2>2. ASSUME NEW k \in Key, <<"typing", k>> \in refused
        PROVE  GrantedWithin("typing", k, Debounce) >= 1
    <3>1. PICK g \in Seq(Time) : g = granted["typing"][k]
      BY DEF SlidingInv, LimitsTypeOK, Limiter
    <3>2. g # <<>> /\ now - g[Len(g)] < Debounce
      BY <2>2, <3>1 DEF SlidingInv, TypingIsSound
    <3>3. PICK lo \in 1 .. Len(g) + 1 : lo = Len(g)
      BY <3>2
    <3>4. \A i \in lo .. Len(g) : now - g[i] < Debounce
      BY <3>2, <3>3
    <3>5. GrantedWithin("typing", k, Debounce) >= Len(g) - lo + 1
      BY <3>1, <3>4, WithinCount DEF Limiter
    <3> QED BY <3>3, <3>5
  <2>3. ASSUME NEW k \in Key
        PROVE  /\ \A i \in 1 .. Len(granted["login"][k]) - MaxLogins :
                     granted["login"][k][i + MaxLogins] - granted["login"][k][i]
                       >= LoginWindow
               /\ \A i \in 1 .. Len(granted["typing"][k]) - 1 :
                     granted["typing"][k][i + 1] - granted["typing"][k][i] >= Debounce
    BY DEF SlidingInv, LoginIsSound, TypingIsSound, HistoryIsSound
  <2> QED BY <2>1, <2>2, <2>3 DEF SlidingLimits, Fair
<1> QED BY <1>1, <1>2, SlidingInit, PTL DEF LimitsSpec

-----------------------------------------------------------------------------
(* The four services together, as they are checked: a behaviour runs one of  *)
(* them and leaves the state of the others alone, so that it is a behaviour  *)
(* of each of the four specifications.                                       *)

\* A step of the whole is a step of each service, or leaves it as it was.
LEMMA PartsStep ==
    ASSUME [MCNext]_vars
    PROVE  /\ [FilesNext]_filesVars /\ [LimitsNext]_limitsVars
           /\ [UnreadNext]_unreadVars /\ [PagingNext]_pagingVars
<1>1. CASE FilesPart
  BY <1>1 DEF FilesPart
<1>2. CASE LimitsPart
  <2>1. LimitsNext
    BY <1>2 DEF LimitsPart, LimitsNext
  <2> QED BY <1>2, <2>1 DEF LimitsPart
<1>3. CASE UnreadPart
  BY <1>3 DEF UnreadPart
<1>4. CASE PagingPart
  BY <1>4 DEF PagingPart
<1>5. CASE UNCHANGED vars
  BY <1>5 DEF vars
<1> QED BY <1>1, <1>2, <1>3, <1>4, <1>5 DEF MCNext

\* What is proved of a service by itself holds where the four are checked
\* together: the composition implements the specification of each.
THEOREM ServicesImplementParts ==
    MCSpec => FilesSpec /\ LimitsSpec /\ UnreadSpec /\ PagingSpec
<1>1. MCInit => FilesInit /\ LimitsInit /\ UnreadInit /\ PagingInit
  BY DEF MCInit
<1>2. [MCNext]_vars => [FilesNext]_filesVars
  BY PartsStep
<1>3. [MCNext]_vars => [LimitsNext]_limitsVars
  BY PartsStep
<1>4. [MCNext]_vars => [UnreadNext]_unreadVars
  BY PartsStep
<1>5. [MCNext]_vars => [PagingNext]_pagingVars
  BY PartsStep
<1> QED BY <1>1, <1>2, <1>3, <1>4, <1>5, PTL
        DEF MCSpec, FilesSpec, LimitsSpec, UnreadSpec, PagingSpec

\* All four keep their types, whichever of them runs: the files on disk and in
\* the table, the limiters' queues, the counters of the unread badge and the
\* pages of a search hold what the code's types say, of any size.
THEOREM ServicesTypesHold == MCSpec => []TypeOK
<1>1. FilesTypeOK /\ LimitsTypeOK /\ UnreadTypeOK /\ PagingTypeOK => TypeOK
  BY DEF TypeOK
<1> QED BY <1>1, ServicesImplementParts, FilesTypesHold, LimitsTypesHold,
           UnreadTypesHold, PagingTypesHold, PTL

=============================================================================
