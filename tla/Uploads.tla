------------------------------ MODULE Uploads --------------------------------
(***************************************************************************)
(* Files that users upload (src/src/utils.cpp, /api/file/simpleUpload of   *)
(* main.cpp) and the links that the page makes of the answers (main.js).   *)
(*                                                                         *)
(* Each worker looks for the folder of its user, makes it, and writes,     *)
(* while others do the same.  The session of a request is that of a user:  *)
(* Accounts has how it is found.                                           *)
(***************************************************************************)
EXTENDS Text

CONSTANTS
    Uploaders,      \* workers
    Users, Files,   \* records: name, type and data of a file
    Garbage,        \* other bodies
    MinLength,      \* 50 in the program
    Randoms,        \* random numbers
    MaxUploads      \* bound

VARIABLES
    folders,        \* the users who have a folder in ../attachments
    disk,           \* what the files hold
    upload,         \* what each worker saves
    uploads,        \* how many were begun
    links,          \* history: what pages made of answers, with the file
    spoilt          \* history: the files for which there was no room
uploadVars == <<folders, disk, upload, uploads, links, spoilt>>

-----------------------------------------------------------------------------

\* Dropzone sends one file as the only part of a form.
FormOf(f) == "--B\r\nContent-Disposition: form-data; name=\"file\"; filename=\"" \o f.name
             \o "\"\r\nContent-Type: " \o f.type \o "\r\n\r\n" \o f.data \o "\r\n--B--\r\n"

FindLast(t, part) ==
    LET found == {i \in 1 .. Len(t) : At(t, i, part)}
    IN IF found = {} THEN 0 ELSE CHOOSE i \in found : \A j \in found : j <= i

\* getFileExt(): the first of these types that stands in the beginning of the body,
\* wherever it stands there.
Extensions == <<<<"image/jpeg", ".jpg">>, <<"image/png", ".png">>, <<"image/gif", ".gif">>,
    <<"image/jpg", ".jpg">>, <<"image/webp", ".webp">>, <<"image/x-ms-bmp", ".bmp">>,
    <<"image/tif", ".tif">>, <<"image/svg+xml", ".svg">>>>
In(meta)         == {k \in DOMAIN Extensions : Find(meta, Extensions[k][1]) # 0}
getFileExt(meta) == IF In(meta) = {} THEN ""
                    ELSE Extensions[CHOOSE k \in In(meta) : \A j \in In(meta) : k <= j][2]

\* SavePostFile(): the data is what stands between the first empty line and the last
\* line that begins with "-"; all behind the empty line, if there is no such line there.
Start(body)    == IF Find(body, "\r\n\r\n") = 0 THEN 4 ELSE Find(body, "\r\n\r\n") + 4
DataBefore(body, end) == IF end < Start(body) THEN From(body, Start(body))
                         ELSE Cut(body, Start(body), end - 1)
\* The data up to the first such line.
FileDataMutant(body) == DataBefore(body, Find(body, "\r\n-"))
FileData(body) == DataBefore(body, FindLast(body, "\r\n-"))
Saves(body)    == FindLast(body, "\r\n-") # 0 /\ Len(FileData(body)) > MinLength

-----------------------------------------------------------------------------

NoFile   == [name |-> "", type |-> "", data |-> ""]
NoUpload == [at |-> "idle", user |-> "", data |-> "", ext |-> "", file |-> NoFile, answer |-> ""]
UploadInit ==
    /\ folders = {} /\ disk = <<>> /\ links = {} /\ spoilt = {} /\ uploads = 0
    /\ upload = [w \in Uploaders |-> NoUpload]

Meta(body) == Cut(body, 1, IF Len(body) < 200 THEN Len(body) ELSE 200)
Begun(user, body, f) ==
    IF Saves(body) THEN [at |-> "exists", user |-> user, data |-> FileData(body),
                         ext |-> getFileExt(Meta(body)), file |-> f, answer |-> ""]
    ELSE [NoUpload EXCEPT !.at = "answer", !.answer = "error"]
UploadBegins(w, user, body, f) ==
    /\ upload[w].at = "idle" /\ uploads < MaxUploads
    /\ upload' = [upload EXCEPT ![w] = Begun(user, body, f)] /\ uploads' = uploads + 1
    /\ UNCHANGED <<folders, disk, links, spoilt>>
FileDropped(w)  == \E u \in Users, f \in Files : UploadBegins(w, u, FormOf(f), f)
GarbageSent(w)  == \E u \in Users, b \in Garbage : UploadBegins(w, u, b, NoFile)

UploadStep(w, from, to, answer) ==
    /\ upload[w].at = from
    /\ upload' = [upload EXCEPT ![w].at = to, ![w].answer = answer]
    /\ UNCHANGED <<uploads, links>>
HasFolder(w) == upload[w].user \in folders

\* createFolder(): the folder is made when it was not there; it fails when it is there now.
LooksForFolder(w) == /\ UploadStep(w, "exists", IF HasFolder(w) THEN "write" ELSE "create", "")
                     /\ UNCHANGED <<folders, disk, spoilt>>
MakesFolder(w) ==
    /\ IF HasFolder(w) THEN UploadStep(w, "create", "answer", "create folder failed")
                       ELSE UploadStep(w, "create", "write", "")
    /\ folders' = folders \cup {upload[w].user}
    /\ UNCHANGED <<disk, spoilt>>

\* The numbers that are drawn in one second are different (six of 36 characters); a
\* stream that cannot be written to the end says nothing.
PathOf(c, number) == c.user \o "/" \o number \o c.ext
Put(f, key, value) == [k \in DOMAIN f \cup {key} |-> IF k = key THEN value ELSE f[k]]
WritesFile(w) ==
    \E number \in Randoms, room \in BOOLEAN :
        LET path == PathOf(upload[w], number)
        IN /\ path \notin DOMAIN disk
           /\ UploadStep(w, "write", "answer", path)
           /\ disk' = Put(disk, path, IF room THEN upload[w].data ELSE "")
           /\ spoilt' = IF room THEN spoilt ELSE spoilt \cup {path}
           /\ UNCHANGED folders

\* The page makes a link of an answer that is not 500, and a picture of one with a ".".
Link(c) == [user |-> c.user, path |-> c.answer, file |-> c.file, picture |-> Find(c.answer, ".") > 1]
UploadAnswered(w) ==
    /\ upload[w].at = "answer"
    /\ links' = IF upload[w].answer = "error" THEN links ELSE links \cup {Link(upload[w])}
    /\ upload' = [upload EXCEPT ![w] = NoUpload]
    /\ UNCHANGED <<folders, disk, uploads, spoilt>>

\* The program ends, and begins again: no answer.
UploadsLost ==
    /\ \E w \in Uploaders : upload[w] # NoUpload
    /\ upload' = [w \in Uploaders |-> NoUpload]
    /\ UNCHANGED <<folders, disk, uploads, links, spoilt>>

UploadNext ==
    \/ \E w \in Uploaders : \/ FileDropped(w) \/ GarbageSent(w) \/ LooksForFolder(w)
                            \/ MakesFolder(w) \/ WritesFile(w) \/ UploadAnswered(w)
    \/ UploadsLost

-----------------------------------------------------------------------------

\* A link that a page made leads to a file of its user with the data that was uploaded,
\* byte for byte whatever the data looks like, however many upload at once and whenever
\* the program ended, and to a picture if it was one (names are short here: the type is
\* looked for in the first 200 bytes of the header, utils.cpp:135); unless there was no
\* room on the disk, which nobody is told (utils.cpp:101, 131, 142).  Nor is a user told
\* who loses the race for a folder: the page says "上传成功" and links to "create folder
\* failed".
LeadsToFile(l) ==
    /\ l.path \in DOMAIN disk /\ StartsWith(l.path, l.user \o "/")
    /\ disk[l.path] = l.file.data
    /\ In(l.file.type) # {} => l.picture
UploadsAreKept ==
    \A l \in links : l.path \in spoilt \cup {"create folder failed"} \/ LeadsToFile(l)
=============================================================================
