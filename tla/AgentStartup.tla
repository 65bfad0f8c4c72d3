---------------------------- MODULE AgentStartup ----------------------------
(***************************************************************************)
(* How an agent process comes up, as the READMEs of agent/host and         *)
(* agent/registration/nacos compose it: the verifier of routerauth from    *)
(* its environment, Nacos' LoadConfig, in mode nacos New with its TLS      *)
(* transport, and host.New, which gets what was made before.               *)
(* New reads the TLS files while somebody may rotate them: a path may be   *)
(* replaced by another file or a symbolic link, or be removed, and a file  *)
(* may grow.                                                               *)
(***************************************************************************)
EXTENDS NacosConfig, SequencesExt

CONSTANTS
  Deployment,    \* environments with the files that their paths name
  Inode,
  Pair,          \* client certificates with their keys
  MaxMaterial,   \* maximumTLSMaterialBytes, a PEM block being one byte
  MaxRotations   \* bound on what happens to the files

\* The blocks of a PEM file: a certificate that may sign, one that may not or
\* a key, and bytes that are no block and that pem.Decode skips.
Block == {"ca", "text"} \cup Pair

\* The files whose names the configuration holds.
Path == {"TLS_CA_FILE"} \cup ClientPair

\* What a path may name: a regular file, a symbolic link to one, neither, or
\* nothing.
Entry == [kind : {"file", "link"}, file : {{i} : i \in Inode}]
           \cup [kind : {"directory", "none"}, file : {{}}]

RouterName  == {"ISSUER", "AUDIENCE", "KEY_ID", "PUBLIC_KEY_BASE64URL"}
RouterValue == Value \cup {"folded"}  \* a key with line breaks in it

ASSUME PairAssumption == Pair \cap {"ca", "text"} = {}
ASSUME MaterialAssumption == MaxMaterial \in Nat \ {0} /\ MaxRotations \in Nat
ASSUME DeploymentAssumption ==
  Deployment \subseteq [router : [RouterName -> RouterValue], env : Environment,
                        dir : [Path -> Entry], disk : [Inode -> Seq(Block)]]

VARIABLES
  deployment,  \* the environment, as it was at the start
  dir,         \* what a path names
  disk,        \* the bytes of a file
  rotations,
  named,       \* the files that each path itself named so far
  past,        \* the contents that each file had so far
  at,          \* "verifier", "load", "lstat", "open", "stat", "read", "build",
               \* "host", "ready", "running" or "failed"
  path,        \* the file that readTLSMaterial is called for
  inode,       \* pathInfo, and the file that was opened
  size,        \* info.Size()
  material     \* what New has read

files    == <<dir, disk, rotations, named, past>>
new      == <<at, path, inode, size, material>>
startup  == <<deployment, files, new>>

None   == [lstat |-> {}, opened |-> {}]
Unread == [p \in Path |-> <<>>]

\* The file that a path names itself, not through a link.
Names(entry) == IF entry.kind = "file" THEN entry.file ELSE {}

StartupInit ==
  /\ deployment \in Deployment
  /\ dir = deployment.dir /\ disk = deployment.disk /\ rotations = 0
  /\ named = [p \in Path |-> Names(dir[p])]
  /\ past = [i \in Inode |-> {disk[i]}]
  /\ at = "verifier" /\ path = "TLS_CA_FILE" /\ inode = None /\ size = 0
  /\ material = Unread

env    == deployment.env
config == Loaded(env)
------------------------------------------------------------------------------
(* The files.                                                               *)

\* Something else takes the place of what a path names.
Replace(p) ==
  \E entry \in Entry :
    /\ dir' = [dir EXCEPT ![p] = entry]
    /\ named' = [named EXCEPT ![p] = @ \cup Names(entry)]
    /\ UNCHANGED <<disk, past>>

\* Somebody writes on.
Grow(i) ==
  \E block \in Block :
    /\ disk' = [disk EXCEPT ![i] = Append(@, block)]
    /\ past' = [past EXCEPT ![i] = @ \cup {Append(disk[i], block)}]
    /\ UNCHANGED <<dir, named>>

Rotate ==
  /\ at \in {"lstat", "open", "stat", "read"}
  /\ rotations < MaxRotations /\ rotations' = rotations + 1
  /\ (\E p \in Path : Replace(p)) \/ (\E i \in Inode : Grow(i))
  /\ UNCHANGED <<deployment, new>>
------------------------------------------------------------------------------
(* The configurations.                                                      *)

Fail == at' = "failed" /\ UNCHANGED <<path, inode, size, material>>

\* routerauth.LoadConfig, Validate and NewVerifier.  A key is not trimmed, and
\* encoding/base64 skips line breaks.
Verifiable ==
  \A n \in RouterName :
    \/ deployment.router[n] = "good"
    \/ n = "PUBLIC_KEY_BASE64URL" /\ deployment.router[n] = "folded"

NewVerifier ==
  /\ at = "verifier"
  /\ IF Verifiable THEN at' = "load" /\ UNCHANGED <<path, inode, size, material>> ELSE Fail
  /\ UNCHANGED <<deployment, files>>

\* LoadConfig, and in mode nacos the first lines of newHTTPClient.
LoadConfig ==
  /\ at = "load"
  /\ \/ ~Loads(env) /\ Fail
     \/ /\ Loads(env)
        /\ at' = IF config.mode = "disabled" THEN "host"
                 ELSE IF config.scheme = "https" THEN "lstat" ELSE "build"
        /\ UNCHANGED <<path, inode, size, material>>
  /\ UNCHANGED <<deployment, files>>
------------------------------------------------------------------------------
(* readTLSMaterial.                                                         *)

Fits(n) == n \in 1 .. MaxMaterial

Lstat ==
  /\ at = "lstat"
  /\ IF dir[path].kind = "file" /\ \A i \in dir[path].file : Fits(Len(disk[i]))
     THEN /\ at' = "open" /\ inode' = [inode EXCEPT !.lstat = dir[path].file]
          /\ UNCHANGED <<path, size, material>>
     ELSE Fail
  /\ UNCHANGED <<deployment, files>>

\* os.Open follows a link; a directory can be opened, too.
Open ==
  /\ at = "open"
  /\ IF dir[path].kind = "none" THEN Fail
     ELSE /\ at' = "stat"
          /\ inode' = [inode EXCEPT !.opened = dir[path].file]
          /\ UNCHANGED <<path, size, material>>
  /\ UNCHANGED <<deployment, files>>

\* Mutant: any regular file will do.
SameFileAny == inode.opened # {}

\* file.Stat() is that of a regular file, and os.SameFile(pathInfo, info).
SameFile == inode.opened = inode.lstat

Stat ==
  /\ at = "stat"
  /\ IF SameFile /\ \A i \in inode.opened : Fits(Len(disk[i]))
     THEN /\ at' = "read"
          /\ \E i \in inode.opened : size' = Len(disk[i])
          /\ UNCHANGED <<path, inode, material>>
     ELSE Fail
  /\ UNCHANGED <<deployment, files>>

\* What io.ReadAll gets through a reader that is limited to one more.
Content(bytes) ==
  SubSeq(bytes, 1, IF Len(bytes) <= MaxMaterial THEN Len(bytes) ELSE MaxMaterial + 1)

\* The pool that loadCAPool makes of a content: every block in it must be one
\* of a certificate that may sign, and nothing may come after the last.
TrustsAll(content) ==
  /\ \A k \in DOMAIN content : content[k] \in {"ca", "text"}
  /\ Contains(content, "ca") /\ Last(content) = "ca"

\* tls.X509KeyPair: the first certificate and the first key, text being skipped.
KeyPair(cert, key) ==
  \E k \in DOMAIN cert, l \in DOMAIN key :
    /\ cert[k] = key[l] /\ key[l] \in Pair
    /\ \A j \in 1 .. k - 1 : cert[j] = "text"
    /\ \A j \in 1 .. l - 1 : key[j] \notin Pair

\* What New does with a content: the next file to read, or "build" or "failed".
Following(m) ==
  CASE path = "TLS_CA_FILE" ->
         IF ~TrustsAll(m[path]) THEN "failed"
         ELSE IF ClientPair \subseteq config.fields THEN "TLS_CLIENT_CERT_FILE" ELSE "build"
    [] path = "TLS_CLIENT_CERT_FILE" -> "TLS_CLIENT_KEY_FILE"
    [] path = "TLS_CLIENT_KEY_FILE" ->
         IF KeyPair(m["TLS_CLIENT_CERT_FILE"], m[path]) THEN "build" ELSE "failed"

\* The file is read to its end and closed.
ReadAll ==
  /\ at = "read"
  /\ \E i \in inode.opened :
       IF Len(Content(disk[i])) # size THEN Fail
       ELSE /\ material' = [material EXCEPT ![path] = Content(disk[i])]
            /\ IF Following(material') \in Path
               THEN at' = "lstat" /\ path' = Following(material')
               ELSE at' = Following(material') /\ UNCHANGED path
            /\ inode' = None /\ size' = 0
  /\ UNCHANGED <<deployment, files>>
------------------------------------------------------------------------------
\* newWithExecutor: Core's constructors may refuse.
BuildRegistration ==
  /\ at = "build"
  /\ \/ Fail
     \/ at' = "host" /\ UNCHANGED <<path, inode, size, material>>
  /\ UNCHANGED <<deployment, files>>

\* What host.New refuses.
PolicyFault == {"address", "handler", "timeout", "signals", "nil registration"}

NewHost ==
  /\ at = "host"
  /\ \E faults \in SUBSET PolicyFault :
       IF faults = {} THEN at' = "ready" /\ UNCHANGED <<path, inode, size, material>>
       ELSE Fail
  /\ UNCHANGED <<deployment, files>>

\* Host.Run looks at none of this; it is set back.
Leave ==
  /\ at = "ready" /\ at' = "running"
  /\ dir' = deployment.dir /\ disk' = deployment.disk /\ rotations' = 0
  /\ named' = [p \in Path |-> {}] /\ past' = [i \in Inode |-> {}]
  /\ path' = "TLS_CA_FILE" /\ material' = Unread
  /\ UNCHANGED <<deployment, inode, size>>

StartupNext ==
  \/ Rotate \/ NewVerifier \/ LoadConfig \/ Lstat \/ Open \/ Stat \/ ReadAll
  \/ BuildRegistration \/ NewHost
------------------------------------------------------------------------------
\* A process comes up only with material that is what its configuration names:
\* each file was, as a whole, the content of a regular file that the path
\* itself named, never one behind a link, whatever was rotated meanwhile, and
\* the first certificate read and the first key read are one pair
\* (http_client.go:26-41, 89-111).
MaterialIsOfItsPath ==
  at = "ready" =>
    /\ \A p \in Path \cap config.fields :
         \E i \in named[p] : material[p] \in past[i] /\ Fits(Len(material[p]))
    /\ ClientPair \subseteq config.fields =>
         KeyPair(material["TLS_CLIENT_CERT_FILE"], material["TLS_CLIENT_KEY_FILE"])

\* The variables that mode nacos needs with an environment's scheme and auth
\* mode, and what it may have besides.
Needed(e) ==
  (Suffix \ (TLS \cup {"ACCESS_TOKEN"}))
    \cup (IF e.scheme = "https" THEN {"TLS_CA_FILE", "TLS_SERVER_NAME"} ELSE {})
    \cup (IF e.auth = "access_token" THEN {"ACCESS_TOKEN"} ELSE {})

Optional(e) == IF e.scheme = "https" THEN {{}, ClientPair} ELSE {{}}

\* "There are no inferred endpoints, credentials, trust roots, or timing values"
\* (config.go:30-32), and none is ignored.  A process that came up was either
\* told to go without a registration, with no other variable set and no file
\* read; or it has each variable that its scheme and auth mode need and, with
\* https, the client pair or neither half of it, and has no others, all of them
\* usable; it has read exactly the files that these name; its roots are there
\* with https, and each certificate in them is a CA's; and its timings are in
\* order (config.go:65-226, http_client.go:17-87).
NothingIgnored ==
  at = "ready" =>
    \/ env.mode = "disabled" /\ Exists(env) = {} /\ material = Unread
    \/ /\ env.mode = "nacos"
       /\ \E pair \in Optional(env) : Exists(env) = Needed(env) \cup pair
       /\ Exists(env) \subseteq Usable(env) /\ config.fields = Exists(env)
       /\ \A p \in Path : material[p] # <<>> <=> p \in Exists(env)
       /\ env.scheme = "https" =>
            /\ "ca" \in Range(material["TLS_CA_FILE"])
            /\ Pair \cap Range(material["TLS_CA_FILE"]) = {}
       /\ env.ms["HEARTBEAT_INTERVAL"] < env.ms["HEARTBEAT_TIMEOUT"]
       /\ env.ms["HEARTBEAT_TIMEOUT"] < env.ms["IP_DELETE_TIMEOUT"]
=============================================================================
