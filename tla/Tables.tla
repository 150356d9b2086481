------------------------------- MODULE Tables -------------------------------
(***************************************************************************)
(* The tables of General/FileOperations, General/MimeOperations,           *)
(* HttpFunctions and HttpResponse: extensions, file types, content types,  *)
(* methods and status codes.  A word is a string here.  Extensions and     *)
(* mime types are put into lower case before they are looked up.           *)
(***************************************************************************)
EXTENDS Integers, Sequences, FiniteSets

None == "none"
Lookup(table, word) == IF word \in DOMAIN table THEN table[word] ELSE None

Grids == {"bmp", "gif", "ico", "jpg", "pic", "png", "pnm", "psd", "raw", "rgb",
          "tga", "tiff"}
Vectors2D == {"eps", "ps", "svg", "swf", "wmf"}
Vectors3D == {"blend", "dxf", "igs", "stp", "sat", "wrl"}
Scripts == {"js", "pl", "php", "py", "rb"}

(* FILE_TYPE: category and the extension that FileTypeToFileExtension gives. *)
FileTypes == {"IMAGE"} \X (Grids \union Vectors2D \union Vectors3D)
             \union {"TEXT"} \X ({"css", "html"} \union Scripts)
FileCategoryOf(type) == type[1]
FileTypeToFileExtension(type) == type[2]

(* The other extensions of a type. *)
Aliases == [giff |-> "gif", jpeg |-> "jpg", jpe |-> "jpg", jfif |-> "jpg",
            rgba |-> "rgb", sgi |-> "rgb", tif |-> "tiff", wrz |-> "wrl"]

(* Extensions that FileExtensionToFileType has no branch for. *)
Unreadable == {"pl", "php", "py", "rb"}

(***************************************************************************)
(* FileExtensionToFileType.  The branch of 't' also asks for "bpx", "icb"  *)
(* and "pix", which begin with other letters and are never found.          *)
(***************************************************************************)
FileExtensionToFileType(extension) ==
  LET name == IF extension \in DOMAIN Aliases THEN Aliases[extension] ELSE extension
      types == {t \in FileTypes : FileTypeToFileExtension(t) = name}
  IN  IF types = {} \/ name \in Unreadable THEN None
      ELSE CHOOSE t \in types : TRUE

(* FileTypeToContentType, of the extension of the type *)
FileTypeToContentType(type) ==
  LET image == [gif |-> "image/gif", jpg |-> "image/jpeg", png |-> "image/png",
                tiff |-> "image/tiff", svg |-> "image/svg+xml"]
      text == [css |-> "text/css", html |-> "text/html", js |-> "text/javascript"]
  IN  Lookup(IF FileCategoryOf(type) = "IMAGE" THEN image ELSE text,
             FileTypeToFileExtension(type))

(***************************************************************************)
(* StringToMimeType.  A mime type is its name.  Some names are compared    *)
(* without their length, in this order: a name is read as the first one it *)
(* begins with, "video/mpeg4-generic" as "video/mpeg".                     *)
(***************************************************************************)
Exact ==
  {"application/x-www-form-urlencoded", "audio/mp4", "audio/mpeg",
   "audio/mpeg4-generic", "audio/ogg", "example", "image/example", "image/gif",
   "image/ief", "image/jp2", "image/jpeg", "image/png", "image/tiff",
   "image/tiff-fx", "multipart/alternative", "multipart/byteranges",
   "multipart/digest", "multipart/encrypted", "multipart/example",
   "multipart/form-data", "multipart/mixed", "multipart/signed",
   "message/example", "message/external-body", "message/http",
   "message/partial", "message/rfc822", "message/s-http", "message/sip",
   "model/example", "model/mesh"}
Beginnings ==
  {"text/calendar", "text/css", "text/csv", "text/dns", "text/example",
   "text/html", "text/plain", "text/rfc822-headers", "text/richtext",
   "text/rtf", "text/sml", "video/h264", "video/jpeg", "video/mp4", "video/mpeg",
   "video/ogg", "video/quicktime"}

Begins(word, prefix) ==
  Len(prefix) <= Len(word) /\ SubSeq(word, 1, Len(prefix)) = prefix

StringToMimeType(mime) ==
  LET matches == {p \in Beginnings : Begins(mime, p)}
  IN  IF mime \in Exact THEN mime
      ELSE IF matches = {} THEN None
      ELSE CHOOSE p \in matches : \A q \in matches : Len(p) <= Len(q)

(* ToHttpMethod: names are compared as they are. *)
HttpMethods == {"OPTIONS", "GET", "HEAD", "POST", "PUT", "PATCH", "DELETE",
                "TRACE", "CONNECT"}
ToHttpMethod(word) == IF word \in HttpMethods THEN word ELSE "UNKNOWN"

(* ToPString *)
MethodName(method) == IF method = "UNKNOWN" THEN "" ELSE method

(* isValidStatusCode *)
StatusCodes ==
  (100..103) \union (200..208) \union {226} \union (300..308)
    \union ((400..426) \ {412, 419, 420, 425}) \union {428, 429, 431, 451}
    \union ((500..511) \ {509})

(* There is a description. *)
GetStatusDescription(code) == code \in StatusCodes

(* IsRedict *)
RedirectCodes == {301, 303, 307}
=============================================================================
