------------------------------ MODULE S3Upload ------------------------------
(***************************************************************************)
(* Uploading a level (method 66) and what belongs to it (method 132): a    *)
(* console asks for a descriptor, POSTs its asset to the host and under    *)
(* the key it finds there, and takes the upload for done when the ETag of  *)
(* the answer is that of the asset (smm2_datastore.go:81-92,               *)
(* smm2_objects.go:99-118, s3PostHandler at smm2_storage.go:237-288).      *)
(*                                                                         *)
(* Every POST is served by a goroutine: it parses the form, truncates the  *)
(* file and writes it, and other goroutines run in between.  Nothing locks *)
(* the file.  An asset is known by its upload and its length.              *)
(***************************************************************************)
EXTENDS UploadDescriptors

CONSTANTS
  Uploads,    \* the assets: pairs of an account and a kind
  Named,      \* those whose console sends a file name with the part
  Sizes,      \* the lengths they can have
  MaxPosts,   \* bound: POSTs that all consoles send together
  MaxPart     \* what LimitReader takes of a file; 96 MiB in the code

ASSUME UploadAssumption ==
  /\ Uploads \subseteq PIDs \X Kinds
  /\ Named \subseteq Uploads
  /\ Sizes \subseteq Nat \ {0}
  /\ MaxPosts \in Nat \ {0}
  /\ MaxPart \in Nat \ {0}

\* Texts that sanitizeKey replaces, as they stand alone in a key.
Separators == {"/", ":", "\\", "?", ".."}

\* Texts of keys that are one text in a name of a file.
Alike(s, t) == s = t \/ {s, t} \subseteq Separators \union {"_"}

\* No two kinds of relation assets have keys that differ in separators alone.
ASSUME KeysAssumption ==
  \A kind, other \in Types :
    kind # other => \E i \in 1 .. 2 : ~Alike(KeyText[kind][i], KeyText[other][i])

VARIABLES
  console,  \* console[u]: how far upload u has come
  post,     \* post[k]: the goroutine that serves the k-th POST
  posts,    \* number of POSTs sent
  objects   \* objects[name]: a file of the storage directory

uploadVars == <<console, post, posts, objects>>

Posts        == 1 .. MaxPosts
ConsoleSteps == {"idle", "told", "refused", "waiting", "stored"}
Lengths      == Sizes \union {MaxPart}
PostStages   == {"none", "form", "open", "write", "ok", "failed", "broken"}

NoUpload == <<>>
NoPost   == [stage |-> "none", of |-> NoUpload, length |-> 0]

UploadInit ==
  /\ console = [u \in Uploads |-> [step |-> "idle", size |-> 0, post |-> 0]]
  /\ post = [k \in Posts |-> NoPost]
  /\ posts = 0
  /\ objects = <<>>

\* The descriptor that upload u was given.
Told(u) == Descriptor(u[2], console[u].size, u[1])

-----------------------------------------------------------------------------
(* sanitizeKey: a flat name; separators become underscores.                *)

Flat(token) == IF \E s \in Separators : token = Text(s) THEN Text("_") ELSE token

\* Mutant: only what follows the last separator names the object.
sanitizeKeyBase(key) ==
  <<Text("obj_")>> \o SubSeq(key, 1 + SelectLastInSeq(key, LAMBDA t : t = Text("/")), Len(key))

sanitizeKey(key) == <<Text("obj_")>> \o [i \in DOMAIN key |-> Flat(key[i])]

NameOf(u) == sanitizeKey(Key(Told(u)))

\* A file is what the last writers have left: a prefix of one asset, or
\* parts of several.
File(u, length) == [of |-> {u}, length |-> length]

\* Mutant: the asset goes behind what the file holds by now.
WrittenBehind(file, u, length) ==
  [of |-> file.of \union {u}, length |-> file.length + length]

\* The asset of u, of that length, goes over what the file holds by now.
WrittenOver(file, u, length) ==
  IF file.length <= length
  THEN File(u, length)
  ELSE [file EXCEPT !.of = @ \union {u}]

PutObject(name, file) ==
  objects' = [n \in DOMAIN objects \union {name} |->
                IF n = name THEN file ELSE objects[n]]

-----------------------------------------------------------------------------
(* The console.                                                            *)

\* 66 or 132: a descriptor, or none (NotFound, or an empty answer).  The
\* console goes on only with a descriptor that it accepts.
PrepareUpload(u, size) ==
  /\ console[u].step = "idle"
  /\ LET found  == Template(u[2]) # NoBody
         answer == Descriptor(u[2], size, u[1])
     IN console' = [console EXCEPT
          ![u].size = size,
          ![u].step = IF found /\ Accepts(answer, u[2], size, u[1])
                      THEN "told" ELSE "refused"]
  /\ UNCHANGED <<post, posts, objects>>

SendPost(u) ==
  /\ console[u].step = "told"
  /\ posts < MaxPosts
  /\ posts' = posts + 1
  /\ console' = [console EXCEPT ![u].step = "waiting", ![u].post = posts']
  /\ post' = [post EXCEPT ![posts'] = [stage |-> "form", of |-> u, length |-> 0]]
  /\ UNCHANGED objects

GiveUp(u) ==
  /\ console[u].step = "waiting"
  /\ console' = [console EXCEPT ![u].step = "told"]
  /\ UNCHANGED <<post, posts, objects>>

\* The ETag is the MD5 sum of what the server has received.
PostAnswered(u) ==
  LET mine == post[console[u].post]
  IN /\ console[u].step = "waiting"
     /\ mine.stage \in {"ok", "failed", "broken"}
     /\ console' = [console EXCEPT ![u].step =
                      IF mine.stage = "ok" /\ mine.length = console[u].size
                      THEN "stored" ELSE "told"]
     /\ UNCHANGED <<post, posts, objects>>

-----------------------------------------------------------------------------
(* s3PostHandler for the k-th POST.                                        *)

Enter(k, stage) == post' = [post EXCEPT ![k].stage = stage]

\* What is taken of the part named file: the whole of it if it came without a
\* file name, as "the console's `file` part" does; else up to the limit, and
\* above the limit an error while reading it back ends it early, unnoticed.
Taken(u) ==
  LET size == console[u].size
  IN {n \in Lengths : IF u \in Named /\ size > MaxPart THEN n <= MaxPart ELSE n = size}

\* ParseMultipartForm reads the whole request or fails, unlike readAllLimited
\* of the other endpoint.
ParseForm(k) ==
  /\ post[k].stage = "form"
  /\ \/ \E n \in Taken(post[k].of) :
          post' = [post EXCEPT ![k].stage = "open", ![k].length = n]
     \/ Enter(k, "failed")
  /\ UNCHANGED <<console, posts, objects>>

\* os.WriteFile, first half: the file is created or truncated.
OpenObject(k) ==
  /\ post[k].stage = "open"
  /\ \/ /\ PutObject(NameOf(post[k].of), File(post[k].of, 0))
        /\ Enter(k, "write")
     \/ /\ Enter(k, "failed")
        /\ UNCHANGED objects
  /\ UNCHANGED <<console, posts>>

\* Second half: the asset is written; on a full disk a part of it is.
WriteObject(k) ==
  LET name == NameOf(post[k].of)
  IN /\ post[k].stage = "write"
     /\ \/ /\ PutObject(name, WrittenOver(objects[name], post[k].of, post[k].length))
           /\ Enter(k, "ok")
        \/ \E n \in Lengths :
             /\ n < post[k].length
             /\ PutObject(name, WrittenOver(objects[name], post[k].of, n))
             /\ Enter(k, "broken")
     /\ UNCHANGED <<console, posts>>

\* The process dies: files stay as they are, requests do not.
Crash ==
  /\ post' = [k \in Posts |->
                CASE post[k].stage = "write" -> [post[k] EXCEPT !.stage = "broken"]
                  [] post[k].stage \in {"form", "open"} -> [post[k] EXCEPT !.stage = "failed"]
                  [] OTHER -> post[k]]
  /\ UNCHANGED <<console, posts, objects>>

UploadNext ==
  \/ \E u \in Uploads :
       \/ \E size \in Sizes : PrepareUpload(u, size)
       \/ SendPost(u) \/ GiveUp(u) \/ PostAnswered(u)
  \/ \E k \in Posts : ParseForm(k) \/ OpenObject(k) \/ WriteObject(k)
  \/ Crash

UploadSpec == UploadInit /\ [][UploadNext]_uploadVars

-----------------------------------------------------------------------------
\* Uploads and POSTs are well formed, and no file is longer than an asset that was
\* written to it (smm2_storage.go:247-266).
UploadTypeOK ==
  /\ console \in [Uploads -> [step : ConsoleSteps, size : Sizes \union {0},
                              post : Posts \union {0}]]
  /\ post \in [Posts -> [stage : PostStages, of : Uploads \union {NoUpload},
                         length : Lengths \union {0}]]
  /\ posts \in 0 .. MaxPosts
  /\ \A name \in DOMAIN objects :
       objects[name] \in [of : SUBSET Uploads, length : Lengths \union {0}]

\* Every descriptor that is handed out declares the length it has: "a
\* same-length swap needs no struct/list length fixups anywhere in the blob"
\* (smm2_objects.go:22-23), and without the variable "la reecriture du
\* descripteur est simplement sautee" (smm2_objects.go:49).
WellFramed ==
  \A u \in Uploads :
    console[u].step # "idle" /\ Template(u[2]) # NoBody => Framed(Told(u))

\* Whoever asks for a kind with a body of its own gets a descriptor that he
\* can use (his size, his PID, our host), unless his size has another number
\* of digits than the measured one.
NobodyRefused ==
  \A u \in Uploads :
    /\ console[u].step = "refused" /\ u[2] \in Bodies
    => u[2] # Level /\ HexDigits(console[u].size) # HexDigits(capturedRelationSize[u[2]])

\* A POST of u was cut off while it wrote, by a full disk or a crash, or it
\* is at it.
Torn(u) == \E k \in Posts : post[k].of = u /\ post[k].stage \in {"write", "broken"}

\* Other consoles that were handed the descriptor of a level: all get the
\* same one, and with it the same name.
Sharing(u) == {v \in Uploads \ {u} : u[2] = Level /\ v[2] = Level /\ console[v].step # "idle"}

\* What a console takes for stored is stored, whole, under its own name: no
\* retry, no late POST that was given up, no other account and no other kind
\* of the same account has taken its place (smm2_storage.go:233-236).
ConfirmedStored ==
  \A u \in Uploads :
    console[u].step = "stored" /\ ~Torn(u) /\ Sharing(u) = {} =>
      NameOf(u) \in DOMAIN objects /\ objects[NameOf(u)] = File(u, console[u].size)
=============================================================================
