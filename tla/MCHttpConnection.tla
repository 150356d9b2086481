-------------------------- MODULE MCHttpConnection --------------------------
EXTENDS HttpConnection, TLC

Symmetry == Permutations(Workers)

Get == [wellFormed |-> TRUE, method |-> "GET", close |-> FALSE, head |-> 1,
        length |-> -1, type |-> "none", body |-> "plain", found |-> TRUE]
LastGet == [Get EXCEPT !.close = TRUE]
LastMissing == [LastGet EXCEPT !.found = FALSE]
EdgeGet == [Get EXCEPT !.head = MaxHeader]
LongGet == [Get EXCEPT !.head = MaxHeader + 1]
Garbage == [Get EXCEPT !.wellFormed = FALSE]
Delete == [Get EXCEPT !.method = "DELETE"]
Form == [Get EXCEPT !.method = "POST", !.length = MaxBody, !.type = "form"]
Upload == [Form EXCEPT !.type = "multipart", !.body = "parts"]
BadUpload == [Upload EXCEPT !.body = "plain"]
EmptyUpload == [Upload EXCEPT !.length = 0]
LongForm == [Form EXCEPT !.length = MaxBody + 1]
EmptyForm == [Form EXCEPT !.length = 0]
VagueForm == [Form EXCEPT !.length = -1]
Put == [Form EXCEPT !.method = "PUT", !.length = 1, !.type = "none"]
PlainPost == [Form EXCEPT !.type = "none"]

(* One of each kind; all POST requests say of which type their body is. *)
OneByOne == {Get, LastGet, LastMissing, EdgeGet, LongGet, Garbage, Delete, Form,
             Upload, BadUpload, EmptyUpload, LongForm, EmptyForm, VagueForm, Put}
InARow == {LastMissing, Form, BadUpload}
Plain == {Get, Form}
Untyped == {Upload, PlainPost}
Long == {Get, LongGet}
=============================================================================
