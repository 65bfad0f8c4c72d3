--------------------------- MODULE MCManagedHost ---------------------------
(***************************************************************************)
(* Deployments for ManagedHost: environments that are good or wrong in one *)
(* or two variables, next to good files; and one with client certificates  *)
(* next to files of all sorts.                                             *)
(***************************************************************************)
EXTENDS ManagedHost

CONSTANTS i1, i2, i3, p1, p2

Timings == [HEARTBEAT_INTERVAL |-> 1000, HEARTBEAT_TIMEOUT |-> 1001,
            IP_DELETE_TIMEOUT |-> 1002, REQUEST_TIMEOUT |-> 100]

\* All that is not TLS or authentication is given.
Base(scheme, auth, given) ==
  [identity |-> TRUE, mode |-> "nacos",
   given |-> [n \in Suffix |-> IF n \in given \/ n \notin TLS \cup {"ACCESS_TOKEN"}
                               THEN "good" ELSE "absent"],
   scheme |-> scheme, auth |-> auth, ms |-> Timings]

Plain  == Base("http", "none", {})
Mutual == Base("https", "access_token", TLS \cup {"ACCESS_TOKEN"})
Off    == [Plain EXCEPT !.mode = "disabled", !.given = [n \in Suffix |-> "absent"]]

\* What a variable is when it is not as it should be.
Wrong(e) == {[e EXCEPT !.given[n] = v] : n \in Suffix, v \in Value}

\* The TLS variables and the token in every combination of "absent" and "good".
Combined ==
  {Base(scheme, auth, given) : scheme \in {"http", "https"},
     auth \in {"none", "access_token"}, given \in SUBSET (TLS \cup {"ACCESS_TOKEN"})}

Timed ==
  {[Plain EXCEPT !.ms = [HEARTBEAT_INTERVAL |-> i, HEARTBEAT_TIMEOUT |-> t,
                         IP_DELETE_TIMEOUT |-> d, REQUEST_TIMEOUT |-> r]] :
     i \in {999, 1000, 60000, 60001}, t \in {1000, 1001, 60001, 300000, 300001},
     d \in {1001, 1002, 300001, 600001}, r \in {99, 100}}

Environments ==
  Wrong(Plain) \cup Wrong(Mutual) \cup Wrong(Off) \cup Combined \cup Timed
    \cup {[Plain EXCEPT !.mode = m] : m \in {"absent", "other", "disabled"}}
    \cup {[Plain EXCEPT !.identity = FALSE]}

\* Three files, the third of them behind no path.
Disk == (i1 :> <<"ca">>) @@ (i2 :> <<p1>>) @@ (i3 :> <<p2, "ca">>)

Named(i) == [kind |-> "file", file |-> {i}]
Dir == [TLS_CA_FILE |-> Named(i1), TLS_CLIENT_CERT_FILE |-> Named(i2),
        TLS_CLIENT_KEY_FILE |-> Named(i2)]

Routed == [n \in RouterName |-> "good"]

Deployed(router, e, dirs, disks) ==
  [router : {router}, env : e, dir : dirs, disk : disks]

Deployments ==
  Deployed(Routed, Environments, {Dir}, {Disk})
    \cup {d \in [router : [RouterName -> RouterValue], env : {Plain}, dir : {Dir},
                 disk : {Disk}] :
            Cardinality({n \in RouterName : d.router[n] # "good"}) = 1}
    \cup Deployed(Routed, {Mutual}, {Dir},
                  {[Disk EXCEPT ![i1] = content] :
                     content \in BoundedSeq({"ca", "text", p1}, MaxMaterial)
                                  \cup {<<"ca", "ca", "ca">>}})
    \cup Deployed(Routed, {Mutual},
                  {[Dir EXCEPT ![p] = entry] : p \in Path, entry \in Entry}, {Disk})
============================================================================
