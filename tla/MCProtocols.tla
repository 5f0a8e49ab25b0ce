----------------------------- MODULE MCProtocols -----------------------------
(* Protocols, where processes of a clone take turns and where they overlap. *)
EXTENDS Protocols, TLC

VARIABLE env

CONSTANTS Host, OtherHost, Directory

\* One host under two schemes, another host, and a directory.
Url(scheme, place) == [scheme |-> scheme, place |-> place]
SomeUrls == {Url("https", Host), Url("http", Host), Url("ftp", OtherHost),
             Url("filesystem", Directory)}

Envs == [alone   |-> [may |-> {"locked"}, urls |-> SomeUrls, overrides |-> Overrides],
         overlap |-> [may |-> {"overlap"}, urls |-> SomeUrls \ {Url("http", Host)},
                      overrides |-> {NoProtocol}]]
Clone(e) == INSTANCE Protocols WITH
    Env <- Envs[e].may, Urls <- Envs[e].urls, Overrides <- Envs[e].overrides

Interchangeable == Permutations(Procs)

MCInit == env \in DOMAIN Envs /\ Init
MCNext == \E e \in DOMAIN Envs : env = e /\ Clone(e)!Next /\ UNCHANGED env
MCSpec == MCInit /\ [][MCNext]_<<vars, env>>
=============================================================================
