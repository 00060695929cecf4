------------------------------ MODULE FileStore ------------------------------
(* Uploads and downloads of family_chat: api.rs (upload_file, parse_range,   *)
(* download_file) over files.rs (save_file).  A file is stored under the     *)
(* hash of its content, so a content is its own id; what is listed for       *)
(* download is kept in memory only (AppState.files).                         *)
EXTENDS Integers, Sequences

CONSTANTS
    Content,        \* contents, each its own SHA-256
    NoContent,
    ThumbOf,        \* the thumbnail of a picture, NoContent for a text
    Size,           \* bytes in a content
    Word,           \* 2^64 in the code: the width of parse_range's sums
    Ranges,         \* Range headers: <<first, last>>, <<first>>, or none: <<>>
    Upload,         \* upload requests
    MaxUploads,     \* bound: uploads begun
    MaxRestarts     \* bound: restarts of the plugin

Absent == -1        \* no such file; its length otherwise
Byte == 0 .. Size

ASSUME FilesAssumption ==
    /\ NoContent \notin Content
    /\ ThumbOf \in [Content -> Content \cup {NoContent}]
    /\ Size \in Nat \ {0}
    /\ Word \in Nat /\ Word > Size
    /\ <<>> \in Ranges
    /\ Ranges \subseteq {<<>>} \cup {<<a>> : a \in Byte} \cup (Byte \X Byte)
    /\ MaxUploads \in Nat /\ MaxRestarts \in Nat

VARIABLES
    disk,           \* the length of each file
    files,          \* AppState.files, metadata of what may be downloaded
    upload,         \* the upload requests
    download,       \* one download
    cutShort,       \* history: files whose last write failed half-way
    uploads, restarts

filesVars == <<disk, files, upload, download, cutShort, uploads, restarts>>

Meta == [id : Content, thumb : Content \cup {NoContent}]

NoUpload == [at |-> "idle", of |-> NoContent, saves |-> NoContent,
             thumb |-> NoContent, gone |-> FALSE]
NoDownload == [at |-> "idle", of |-> NoContent, range |-> <<>>,
               pos |-> 0, left |-> 0, got |-> {}, clean |-> TRUE]

FilesTypeOK ==
    /\ disk \in [Content -> Absent .. Size]
    /\ files \subseteq Meta
    /\ \A m, n \in files : m.id = n.id => m = n
    /\ upload \in [Upload -> [at : {"idle", "open", "write", "saved"},
                              of : Content \cup {NoContent},
                              saves : Content \cup {NoContent},
                              thumb : Content \cup {NoContent},
                              gone : BOOLEAN]]
    /\ download \in [at : {"idle", "open", "stream", "done"},
                     of : Content \cup {NoContent}, range : Ranges,
                     pos : 0 .. Size, left : 0 .. Word,
                     got : SUBSET Byte, clean : BOOLEAN]
    /\ cutShort \subseteq Content
    /\ uploads \in 0 .. MaxUploads /\ restarts \in 0 .. MaxRestarts

FilesInit ==
    /\ disk = [f \in Content |-> Absent]
    /\ files = {}
    /\ upload = [u \in Upload |-> NoUpload]
    /\ download = NoDownload
    /\ cutShort = {}
    /\ uploads = 0 /\ restarts = 0

-----------------------------------------------------------------------------
(* Uploads.  A request over the limit, without a file, or of a type that is  *)
(* not allowed changes nothing and is left out.                              *)

BeginUpload(u, f) ==
    /\ upload[u].at = "idle" /\ uploads < MaxUploads
    /\ uploads' = uploads + 1
    /\ upload' = [upload EXCEPT ![u] =
                      [NoUpload EXCEPT !.at = "open", !.of = f, !.saves = f]]
    /\ UNCHANGED <<disk, files, download, cutShort, restarts>>

(* fs::write first opens the file, which empties it ...                      *)
OpenForWrite(u) ==
    LET f == upload[u].saves
    IN  /\ upload[u].at = "open"
        /\ disk' = [disk EXCEPT ![f] = 0]
        /\ download' = [download EXCEPT !.clean = @ /\ download.of # f]
        /\ upload' = [upload EXCEPT ![u].at = "write"]
        /\ UNCHANGED <<files, cutShort, uploads, restarts>>

(* ... and then writes the whole of it.  A blocking thread does both: it     *)
(* goes on when its handler is gone.                                         *)
WriteContent(u) ==
    LET f == upload[u].saves
    IN  /\ upload[u].at = "write"
        /\ disk' = [disk EXCEPT ![f] = Size]
        /\ cutShort' = cutShort \ {f}
        /\ upload' = [upload EXCEPT ![u] =
                          IF @.gone THEN NoUpload ELSE [@ EXCEPT !.at = "saved"]]
        /\ UNCHANGED <<files, download, uploads, restarts>>

Saved(m) == {n \in files : n.id # m.id} \cup {m}

(* The metadata is inserted, and the id answered, in one step.               *)
List(u, thumb) ==
    /\ files' = Saved([id |-> upload[u].of, thumb |-> thumb])
    /\ upload' = [upload EXCEPT ![u] = NoUpload]

(* A variant with a fault: the thumbnail is listed although its save failed. *)
AfterAnyFailure(u) ==
    IF upload[u].gone \/ upload[u].thumb = NoContent
    THEN /\ upload' = [upload EXCEPT ![u] = NoUpload]
         /\ UNCHANGED files
    ELSE List(u, upload[u].thumb)

(* A failed save of the file itself is answered with a 500; a failed save of *)
(* its thumbnail only means that there is none.                              *)
AfterFailure(u) ==
    IF upload[u].gone \/ upload[u].thumb = NoContent
    THEN /\ upload' = [upload EXCEPT ![u] = NoUpload]
         /\ UNCHANGED files
    ELSE List(u, NoContent)

OpenFails(u) ==
    /\ upload[u].at = "open"
    /\ AfterFailure(u)
    /\ UNCHANGED <<disk, download, cutShort, uploads, restarts>>

WriteStopsShort(u) ==
    LET f == upload[u].saves
    IN  /\ upload[u].at = "write"
        /\ \E k \in 0 .. Size - 1 :
              LET len == IF disk[f] > k THEN disk[f] ELSE k
              IN  /\ disk' = [disk EXCEPT ![f] = len]
                  /\ cutShort' = IF len < Size THEN cutShort \cup {f}
                                 ELSE cutShort
        /\ AfterFailure(u)
        /\ UNCHANGED <<download, uploads, restarts>>

(* After the file, its thumbnail is saved the same way; it is listed last.   *)
SaveThumb(u) ==
    /\ upload[u].at = "saved" /\ upload[u].thumb = NoContent
    /\ ThumbOf[upload[u].of] # NoContent
    /\ upload' = [upload EXCEPT ![u].at = "open",
                                ![u].saves = ThumbOf[upload[u].of],
                                ![u].thumb = ThumbOf[upload[u].of]]
    /\ UNCHANGED <<disk, files, download, cutShort, uploads, restarts>>

ListFile(u) ==
    /\ upload[u].at = "saved"
    /\ upload[u].thumb = ThumbOf[upload[u].of]
    /\ List(u, upload[u].thumb)
    /\ UNCHANGED <<disk, download, cutShort, uploads, restarts>>

(* The client goes: its handler is dropped at once, or, when the blocking    *)
(* thread has the write, only the handler is.                                *)
HangUp(u) ==
    /\ upload[u].at # "idle" /\ ~upload[u].gone
    /\ \/ /\ upload[u].at \in {"open", "saved"}
          /\ upload' = [upload EXCEPT ![u] = NoUpload]
       \/ /\ upload[u].at \in {"open", "write"}
          /\ upload' = [upload EXCEPT ![u] =
                            [@ EXCEPT !.of = NoContent, !.thumb = NoContent,
                                      !.gone = TRUE]]
    /\ UNCHANGED <<disk, files, download, cutShort, uploads, restarts>>

(* The metadata are lost with the process, the files are not.                *)
Restart ==
    /\ restarts < MaxRestarts
    /\ restarts' = restarts + 1
    /\ files' = {}
    /\ upload' = [u \in Upload |-> NoUpload]
    /\ download' = NoDownload
    /\ cutShort' = {f \in Content : disk[f] \in 0 .. Size - 1}
    /\ UNCHANGED <<disk, uploads>>

-----------------------------------------------------------------------------
(* Downloads.  A file that is not listed is answered with a 404.             *)

(* A variant with a fault: the last byte is not compared with the size.      *)
ParseRangeUnchecked(range, size) ==
    LET first == range[1]
        last == IF Len(range) = 2 THEN range[2] ELSE (size - 1) % Word
    IN  IF first > last THEN <<>> ELSE <<first, last>>

(* parse_range: <<first, last>>, or <<>> for a range that is not satisfied;  *)
(* the last byte of an open range is size - 1, which wraps on an empty file. *)
ParseRange(range, size) ==
    LET first == range[1]
        last == IF Len(range) = 2 THEN range[2] ELSE (size - 1) % Word
    IN  IF first > last \/ last >= size THEN <<>> ELSE <<first, last>>

BeginDownload(f, range) ==
    /\ download.at \in {"idle", "done"}
    /\ \E m \in files : m.id = f
    /\ download' = [at |-> "open", of |-> f, range |-> range, pos |-> 0,
                    left |-> 0, got |-> {}, clean |-> disk[f] = Size]
    /\ UNCHANGED <<disk, files, upload, cutShort, uploads, restarts>>

(* The size is read once; without a range the stream goes on to the end of   *)
(* the file, wherever that is then.                                          *)
StatFile ==
    LET size == disk[download.of]
        r == IF download.range = <<>> THEN <<>>
             ELSE ParseRange(download.range, size)
    IN  /\ download.at = "open"
        /\ download' = IF size = Absent THEN NoDownload
                       ELSE IF r = <<>>
                       THEN [download EXCEPT !.at = "stream", !.left = Word]
                       ELSE [download EXCEPT !.at = "stream", !.pos = r[1],
                                             !.left = r[2] - r[1] + 1]
        /\ UNCHANGED <<disk, files, upload, cutShort, uploads, restarts>>

(* In a build with overflow checks, size - 1 panics on an empty file.        *)
StatPanics ==
    /\ download.at = "open" /\ download.range # <<>>
    /\ disk[download.of] = 0
    /\ download' = NoDownload
    /\ UNCHANGED <<disk, files, upload, cutShort, uploads, restarts>>

ReadByte ==
    /\ download.at = "stream"
    /\ download.left > 0 /\ download.pos < disk[download.of]
    /\ download' = [download EXCEPT !.pos = @ + 1, !.left = @ - 1,
                                    !.got = @ \cup {download.pos}]
    /\ UNCHANGED <<disk, files, upload, cutShort, uploads, restarts>>

EndStream ==
    /\ download.at = "stream"
    /\ download.left = 0 \/ disk[download.of] <= download.pos
    /\ download' = [download EXCEPT !.at = "done", !.pos = 0, !.left = 0]
    /\ UNCHANGED <<disk, files, upload, cutShort, uploads, restarts>>

FilesNext ==
    \/ \E u \in Upload :
          \/ \E f \in Content : BeginUpload(u, f)
          \/ OpenForWrite(u) \/ WriteContent(u)
          \/ OpenFails(u) \/ WriteStopsShort(u)
          \/ SaveThumb(u) \/ ListFile(u) \/ HangUp(u)
    \/ Restart
    \/ \E f \in Content, range \in Ranges : BeginDownload(f, range)
    \/ StatFile \/ StatPanics \/ ReadByte \/ EndStream

FilesSpec == FilesInit /\ [][FilesNext]_filesVars

-----------------------------------------------------------------------------
UnderWrite(f) == \E u \in Upload : upload[u].at = "write" /\ upload[u].saves = f

IsWhole(f) == disk[f] = Size \/ UnderWrite(f) \/ f \in cutShort

(* Whatever the metadata names, a file or its thumbnail, is on the disk and  *)
(* whole, unless it is being written again or that write failed half-way:    *)
(* upload_file lists a file after save_file returned, never before, and      *)
(* drops a thumbnail it could not save.                                      *)
ListedIsWhole ==
    \A m \in files :
        IsWhole(m.id) /\ (m.thumb # NoContent => IsWhole(m.thumb))

(* The bytes a client that sends this Range header is to be sent.            *)
Wanted(range) ==
    LET last == IF Len(range) = 1 THEN Size - 1 ELSE range[2]
    IN  IF range = <<>> \/ range[1] > last \/ last >= Size THEN 0 .. Size - 1
        ELSE range[1] .. last

(* A download ends with exactly the bytes its Range header asks for, unless  *)
(* the file was emptied by another upload of the same content while it ran,  *)
(* or an earlier write had cut it short: fs::write empties a file that is    *)
(* listed, and download_file reads the size and the bytes at different times.*)
ServedIsWhole ==
    download.at = "done" /\ download.clean =>
        download.got = Wanted(download.range)

=============================================================================
