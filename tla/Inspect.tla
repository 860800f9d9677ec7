------------------------------ MODULE Inspect ------------------------------
(***************************************************************************)
(* What the inspection of an upload accepts and what it writes             *)
(* (src/modules/media/inspect, the tables of src/modules/media/kinds.rs):  *)
(* it finds the type by the first bytes, holds the declared type, the kind *)
(* of the upload and the file name against it, writes the file anew from   *)
(* the parts it keeps and measures what it wrote.  A person uploads a      *)
(* file, takes what was stored and uploads that again; the type is then    *)
(* found anew.                                                             *)
(*                                                                         *)
(* Of RIFF and FLAC files the sizes are kept, of images the dimensions and *)
(* whether they are within the limit of bytes, of MP3 files what they      *)
(* begin and end with; a file of any other format is sound or is not.      *)
(***************************************************************************)
EXTENDS Integers, Sequences, FiniteSets

CONSTANTS
  Size,       \* bound: sizes of the parts of a file
  Edge,       \* bound: widths and heights
  MaxEdge, MaxPixels,
  MaxBytes,   \* the lower of the limits of the kind and of the server
  MaxParts    \* bound: parts of a file

ASSUME InspectAssumption ==
  /\ Size \subseteq Nat /\ Edge \subseteq Nat
  /\ MaxEdge \in Nat /\ MaxPixels \in Nat /\ MaxBytes \in Nat /\ MaxParts \in Nat

VARIABLES
  upload,   \* [kind, name, mime, type, body]: the extension of its name, the
            \* declared type, the format it was made in, and its contents
  verdict,  \* "none", "stored", or what the refusal is about
  again     \* whether this is the second upload

inspectVars == <<upload, verdict, again>>

-----------------------------------------------------------------------------
Image == {"png", "jpeg", "gif", "webp"}
Sound == {"wav", "mp3", "ogg", "flac", "aac", "mp4", "webm"}

AllowedTypes(kind) ==
  CASE kind \in {"photo", "avatar"} -> Image
    [] kind = "audio" -> Sound
    [] kind = "video" -> {"mp4", "webm", "quicktime"}

AllowedMimes ==
  [png |-> {"image/png"}, jpeg |-> {"image/jpeg", "image/jpg"}, gif |-> {"image/gif"},
   webp |-> {"image/webp"}, wav |-> {"audio/wav", "audio/x-wav", "audio/wave"},
   mp3 |-> {"audio/mpeg", "audio/mp3"}, ogg |-> {"audio/ogg"},
   flac |-> {"audio/flac", "audio/x-flac"}, aac |-> {"audio/aac"},
   mp4 |-> {"audio/mp4", "video/mp4"}, webm |-> {"audio/webm", "video/webm"},
   quicktime |-> {"video/quicktime"}]

AllowedNames ==
  [png |-> {"png"}, jpeg |-> {"jpg", "jpeg"}, gif |-> {"gif"}, webp |-> {"webp"},
   wav |-> {"wav"}, mp3 |-> {"mp3"}, ogg |-> {"ogg"}, flac |-> {"flac"}, aac |-> {"aac"},
   mp4 |-> {"mp4", "m4a"}, webm |-> {"webm"}, quicktime |-> {"mov"}]

Type == DOMAIN AllowedMimes
KnownNames == UNION {AllowedNames[t] : t \in Type}

(* infer_mime: what is declared, or what the name says.  A webm whose name *)
(* says audio is left out: both of its types are allowed.                  *)
NameMime ==
  [jpg |-> "image/jpeg", jpeg |-> "image/jpeg", png |-> "image/png", gif |-> "image/gif",
   webp |-> "image/webp", mp3 |-> "audio/mpeg", wav |-> "audio/wav", ogg |-> "audio/ogg",
   m4a |-> "audio/mp4", aac |-> "audio/aac", flac |-> "audio/flac", mp4 |-> "video/mp4",
   webm |-> "video/webm", mov |-> "video/quicktime"]
InferMime(name, mime) ==
  IF mime = "application/octet-stream" /\ name \in DOMAIN NameMime THEN NameMime[name] ELSE mime

(* The type and the extension under which contents of type t are stored.   *)
TypeMime ==
  [png |-> "image/png", jpeg |-> "image/jpeg", gif |-> "image/gif", webp |-> "image/webp",
   wav |-> "audio/wav", mp3 |-> "audio/mpeg", ogg |-> "audio/ogg", flac |-> "audio/flac",
   aac |-> "audio/aac", mp4 |-> "video/mp4", webm |-> "video/webm",
   quicktime |-> "video/quicktime"]
StoredMime(t, kind) ==
  CASE t = "mp4" /\ kind = "audio" -> "audio/mp4"
    [] t = "webm" /\ kind = "audio" -> "audio/webm"
    [] OTHER -> TypeMime[t]
StoredName(t, kind) ==
  CASE t = "jpeg" -> "jpg"
    [] t = "quicktime" -> "mov"
    [] t = "mp4" /\ kind = "audio" -> "m4a"
    [] OTHER -> t

-----------------------------------------------------------------------------
(* RIFF: chunks of a header of 8 bytes, a payload, and a byte of padding   *)
(* after an odd one, behind a header of 12 bytes.                          *)
Odd(n) == n % 2
Padded(c) == 8 + c.size + Odd(c.size)
(* Where the nth part begins behind a header; one more has the end.        *)
Offset(header, lengths, n) ==
  LET at[k \in 1 .. n] == IF k = 1 THEN header ELSE at[k - 1] + lengths[k - 1]
  IN  at[n]
Start(cs, n) == Offset(12, [k \in DOMAIN cs |-> Padded(cs[k])], n)
Laid(cs) == Start(cs, Len(cs) + 1)

RiffEnd(b) == b.declared + 8
ReadChunks(b) == {n \in DOMAIN b.chunks : Start(b.chunks, n) + 8 <= RiffEnd(b)}
RiffHolds(b, known) ==
  /\ RiffEnd(b) <= b.length
  /\ \A n \in ReadChunks(b) :
       /\ Start(b.chunks, n) + 8 + b.chunks[n].size <= RiffEnd(b)
       /\ b.chunks[n].id \in known
(* The last chunk of that id which the walk reads.                         *)
Found(b, id) == {n \in ReadChunks(b) : b.chunks[n].id = id}
LastOf(b, id) ==
  b.chunks[CHOOSE n \in Found(b, id) : \A m \in Found(b, id) : m <= n]

WavHolds(b) ==
  /\ RiffHolds(b, {"fmt", "data", "LIST"})
  /\ Found(b, "fmt") # {} /\ Found(b, "data") # {}
  /\ \A n \in Found(b, "fmt") : b.chunks[n].size >= 16

(* Mistake: the declared size leaves out the four letters of the form.     *)
WavWithoutForm(b) ==
  LET fmt == LastOf(b, "fmt")  data == LastOf(b, "data") IN
  [declared |-> 8 + fmt.size + 8 + data.size,
   length   |-> 12 + Padded(fmt) + 8 + data.size,
   chunks   |-> <<fmt, data>>]

(* Format and data, in this order.  The padding of the format is written   *)
(* but is no part of the declared size; the data is not padded.            *)
WriteWav(b) ==
  LET fmt == LastOf(b, "fmt")  data == LastOf(b, "data") IN
  [declared |-> 8 + fmt.size + 8 + data.size + 4,
   length   |-> 12 + Padded(fmt) + 8 + data.size,
   chunks   |-> <<fmt, data>>]

-----------------------------------------------------------------------------
(* Images: the dimensions a header gives and those of the decoded pixels,  *)
(* as <<w, h>>; a JPEG file may lack the first, a WebP file the canvas,    *)
(* and what does not decode has no pixels.  fits tells whether the file is *)
(* within the limit, fitsAnew whether its pixels encoded anew are.         *)
Absent == <<>>
ValidDims(d) ==
  /\ d[1] # 0 /\ d[2] # 0
  /\ d[1] <= MaxEdge /\ d[2] <= MaxEdge
  /\ d[1] * d[2] <= MaxPixels
Decodes(b) == b.pixels # Absent /\ ValidDims(b.pixels)

PngHolds(b) == ValidDims(b.header) /\ Decodes(b) /\ b.header = b.pixels
(* The header of a JPEG file is not compared with its pixels.              *)
JpegHolds(b) == (b.header # Absent => ValidDims(b.header)) /\ Decodes(b)

(* The walk of a WebP file keeps what makes up a still image.              *)
Picture == {"VP8", "VP8L", "VP8X"}
WebpHolds(b) ==
  /\ RiffHolds(b, Picture \cup {"EXIF"})
  /\ \/ Start(b.chunks, Cardinality(ReadChunks(b)) + 1) >= RiffEnd(b)
     \/ RiffEnd(b) = b.length
  /\ \E n \in ReadChunks(b) : b.chunks[n].id \in Picture
  /\ b.header # Absent => ValidDims(b.header) /\ b.header = b.pixels
  /\ Decodes(b)

(* The same pixels give the same PNG or WebP file again, which has one     *)
(* chunk and no canvas; a JPEG file loses some of them each time, and the  *)
(* next one may be longer.                                                 *)
ReencodePng(b) == [b EXCEPT !.fits = b.fitsAnew]
ReencodeJpeg(b) ==
  {[header |-> b.pixels, pixels |-> b.pixels, fits |-> b.fitsAnew, fitsAnew |-> next] :
     next \in BOOLEAN}
ReencodeWebp(b) ==
  [b EXCEPT !.chunks = <<[id |-> "VP8L", size |-> 6]>>, !.declared = 18, !.length = 26,
            !.header = Absent, !.fits = b.fitsAnew]

(* The blocks a GIF has of each kind: comments go, plain text is refused.  *)
GifHolds(b) ==
  /\ ValidDims(b.header)
  /\ "plain" \notin b.blocks /\ "image" \in b.blocks
  /\ b.end = "trailer"
WriteGif(b) == [b EXCEPT !.blocks = b.blocks \ {"comment"}]

-----------------------------------------------------------------------------
(* FLAC: of the blocks of metadata only the stream information is kept.    *)
Block(x) == 4 + x.size
FlacLength(b) ==
  Offset(4, [k \in DOMAIN b.blocks |-> Block(b.blocks[k])], Len(b.blocks) + 1) + b.audio
Streams(b) == {n \in DOMAIN b.blocks : b.blocks[n].id = "stream"}
FlacHolds(b) ==
  /\ FlacLength(b) >= 42 /\ b.audio > 0
  /\ Streams(b) # {}
  /\ \A n \in DOMAIN b.blocks : b.blocks[n].id \in {"stream", "tags"}
WriteFlac(b) ==
  LET last == CHOOSE n \in Streams(b) : \A m \in Streams(b) : m <= n IN
  [b EXCEPT !.blocks = <<b.blocks[last]>>]

(* MP3: a tag before and one of 128 bytes behind the frames are cut off.   *)
Mp3Holds(b) == b.frames > 0 /\ b.tail # "junk"
WriteMp3(b) == [b EXCEPT !.tag = FALSE, !.tail = "none"]

(* The type found by the first bytes.  A tag says MP3; without one the     *)
(* first frame speaks, and "ftyp" behind its header, with or without       *)
(* "qt  ", is looked for before frames are.                                *)
Sniff(t, b) == IF t = "mp3" /\ ~ b.tag THEN b.begins ELSE t

(* A frame read as a box has a size beyond any file within the limits.     *)
Holds(t, b) ==
  /\ Sniff(t, b) = t
  /\ CASE t = "wav" -> WavHolds(b)
       [] t = "webp" -> WebpHolds(b)
       [] t = "gif" -> GifHolds(b)
       [] t = "flac" -> FlacHolds(b)
       [] t = "mp3" -> Mp3Holds(b)
       [] t = "png" -> PngHolds(b)
       [] t = "jpeg" -> JpegHolds(b)
       [] OTHER -> b.sound
(* The files that may be written of it.                                    *)
Written(t, b) ==
  CASE t = "wav" -> {WriteWav(b)}
    [] t = "webp" -> {ReencodeWebp(b)}
    [] t = "gif" -> {WriteGif(b)}
    [] t = "flac" -> {WriteFlac(b)}
    [] t = "mp3" -> {WriteMp3(b)}
    [] t = "png" -> {ReencodePng(b)}
    [] t = "jpeg" -> ReencodeJpeg(b)
    [] OTHER -> {b}

(* validate_size, of what is sent and of what is written.  What is written *)
(* of the formats without a size here is no longer than what was sent.     *)
ValidSize(t, b) ==
  CASE t = "wav" -> b.length <= MaxBytes
    [] t = "flac" -> FlacLength(b) <= MaxBytes
    [] t \in {"png", "jpeg", "webp"} -> b.fits
    [] OTHER -> TRUE

-----------------------------------------------------------------------------
(* Files that people may send.  A RIFF file may lack the padding of its    *)
(* last chunk, and may declare less than it has or more.                   *)
Parts(ids) == UNION {[1 .. n -> [id : ids, size : Size]] : n \in 0 .. MaxParts}
RiffBodies(ids) ==
  UNION {{[declared |-> d, length |-> l, chunks |-> cs] :
            d \in {Laid(cs) - 8, Laid(cs) - 9, Laid(cs) - 7},
            l \in {Laid(cs), Laid(cs) - 1}} : cs \in Parts(ids) \ {<<>>}}
Dims == Edge \X Edge
Squares == {<<m, m>> : m \in Edge}
(* A canvas is read where a VP8X chunk has room for it.                    *)
Canvases(b) ==
  IF \E n \in DOMAIN b.chunks : b.chunks[n].id = "VP8X" /\ b.chunks[n].size >= 10
  THEN Squares ELSE {Absent}

Bodies(t) ==
  CASE t = "wav" -> RiffBodies({"fmt", "data", "LIST", "other"})
    [] t = "webp" ->
         UNION {[declared : {b.declared}, length : {b.length}, chunks : {b.chunks},
                 header : Canvases(b), pixels : Squares \cup {Absent},
                 fits : {TRUE}, fitsAnew : BOOLEAN] : b \in RiffBodies({"VP8X", "EXIF", "ANIM"})}
    [] t = "gif" -> [header : Dims, blocks : SUBSET {"image", "comment", "plain"},
                     end : {"trailer", "junk"}]
    [] t = "flac" -> [blocks : Parts({"stream", "tags", "other"}), audio : Size]
    [] t = "mp3" -> [tag : BOOLEAN, begins : {"mp3", "mp4", "quicktime"}, frames : 0 .. 2,
                     tail : {"none", "tag", "junk"}]
    [] t = "png" -> [header : Dims, pixels : Dims \cup {Absent}, fits : BOOLEAN, fitsAnew : BOOLEAN]
    [] t = "jpeg" -> [header : Dims \cup {Absent}, pixels : Dims \cup {Absent},
                      fits : BOOLEAN, fitsAnew : BOOLEAN]
    [] OTHER -> [sound : BOOLEAN]

(* Every name and every declared type for one sound file of each type, and *)
(* the files above under the name and the type they would be stored as.    *)
Kind == {"photo", "avatar", "audio", "video"}
AnyMime == (UNION {AllowedMimes[t] : t \in Type}) \cup {"application/octet-stream"}
Named ==
  [kind : Kind, name : KnownNames \cup {"none"}, mime : AnyMime,
   type : {"ogg", "aac", "mp4", "webm", "quicktime"}, body : {[sound |-> TRUE]}]
Shaped ==
  UNION {UNION {[kind : {k}, name : {StoredName(t, k)}, mime : {StoredMime(t, k)},
                 type : {t}, body : Bodies(t)] :
                   t \in AllowedTypes(k)} : k \in Kind \ {"avatar"}}

InspectInit ==
  /\ upload \in Named \cup Shaped
  /\ verdict = "none" /\ again = FALSE

(* What the upload is refused for before anything is written.              *)
Fault(u) ==
  LET sniffed == Sniff(u.type, u.body) IN
  CASE ~ ValidSize(u.type, u.body) -> "size"
    [] InferMime(u.name, u.mime) \notin AllowedMimes[sniffed] \cup {"application/octet-stream"}
         -> "declared type"
    [] sniffed \notin AllowedTypes(u.kind) -> "kind"
    [] u.name \in KnownNames \ AllowedNames[sniffed] -> "name"
    [] ~ Holds(u.type, u.body) -> "contents"
    [] OTHER -> "none"

Refuse(about) == verdict' = about /\ UNCHANGED upload
Store(written) ==
  /\ verdict' = "stored"
  /\ upload' = [upload EXCEPT !.name = StoredName(upload.type, upload.kind),
                              !.mime = StoredMime(upload.type, upload.kind),
                              !.body = written]

(* persist_object: sanitize, and what it wrote goes to the bucket unless   *)
(* that is too large.                                                      *)
PersistObject ==
  /\ verdict = "none"
  /\ UNCHANGED again
  /\ \/ Fault(upload) # "none" /\ Refuse(Fault(upload))
     \/ /\ Fault(upload) = "none"
        /\ \E written \in Written(upload.type, upload.body) :
             \/ ValidSize(upload.type, written) /\ Store(written)
             \/ ~ ValidSize(upload.type, written) /\ Refuse("size")

(* The stored file comes back as an upload of the same kind; the type the  *)
(* bucket sends along is declared, or is not.                              *)
UploadAgain ==
  /\ verdict = "stored" /\ ~ again
  /\ again' = TRUE /\ verdict' = "none"
  /\ \E mime \in {upload.mime, "application/octet-stream"} :
       upload' = [upload EXCEPT !.mime = mime]

InspectNext == PersistObject \/ UploadAgain

InspectSpec == InspectInit /\ [][InspectNext]_inspectVars

-----------------------------------------------------------------------------
(* The four files whose second upload may be refused: a WAV file whose     *)
(* format has an odd size, as the padding is left out of the declared      *)
(* size; a FLAC file whose stream information is shorter than the 34 bytes *)
(* the format asks for, as its rest made up for the 42 bytes of the check; *)
(* an MP3 file whose first frame, no longer behind a tag, reads as the     *)
(* start of another format; a JPEG file that encoded once more is too      *)
(* large.                                                                  *)
OddFormat ==
  upload.type = "wav" /\ Odd(upload.body.chunks[1].size) = 1
ShortStream ==
  upload.type = "flac" /\ upload.body.blocks[1].size < 34
MisleadingFrame ==
  upload.type = "mp3" /\ upload.body.begins # "mp3"
GrowingPicture ==
  upload.type = "jpeg" /\ ~ upload.body.fitsAnew

(***************************************************************************)
(* What is written is a file of the same kind: whoever takes it from the   *)
(* bucket and uploads it again is not refused, by what it is taken for,    *)
(* what it contains, how large it is or the name and the type it was       *)
(* stored under, unless it is one of the four.                             *)
(***************************************************************************)
StoredIsAccepted ==
  again => \/ verdict \in {"none", "stored"}
           \/ OddFormat \/ ShortStream \/ MisleadingFrame \/ GrowingPicture

=============================================================================
