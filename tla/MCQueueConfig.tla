---------------------------- MODULE MCQueueConfig ----------------------------
(* Every mix of backend, deployment, TLS switches, endpoint lists, prefix  *)
(* and master name, each with at most one further flaw.                    *)
EXTENDS QueueConfig

CONSTANTS alpha, beta

MCText == {alpha, beta, "7000", "bad", "orders", "mymaster", "tagged",
           "untagged", "postgres", "mysql", "ring", "true", "yes", "on",
           "0", "1", "2", "required"} \cup Deployments

Form(type, value) == [type |-> type, value |-> value]
Yes == Form("boolean", "true")
No == Form("boolean", "false")

(* Both switches as the editor leaves them, and every other form in both.  *)
MCSwitches ==
  { <<t, s>> : t, s \in {Blank, Yes} } \cup
  { <<No, Form("text", "on")>>,
    <<Form("text", "1"), Form("text", "required")>>,
    <<Form("text", "required"), Form("number", "2")>>,
    <<Form("number", "1"), Form("number", "0")>>,
    <<Form("number", "0"), No>> }

Endpoint(host, scheme, port) ==
  [host |-> host, scheme |-> scheme, port |-> port, userinfo |-> FALSE]

MCEndpoints ==
  { {},
    {Endpoint(alpha, "none", Blank)},
    {Endpoint(alpha, "rediss", Blank), Endpoint(beta, "none", "7000")},
    {Endpoint(alpha, "redis", Blank)},
    {[Endpoint(alpha, "none", Blank) EXCEPT !.userinfo = TRUE]} }

Sound == [alias |-> FALSE, plaintext |-> {}, name |-> "orders",
          keep |-> Blank, max |-> Blank, port |-> Blank, verify |-> Yes]

MCSound ==
  { Sound,
    [Sound EXCEPT !.verify = No, !.port = "7000"],
    [Sound EXCEPT !.verify = Blank],
    [Sound EXCEPT !.verify = Form("text", "required")],
    [Sound EXCEPT !.verify = Form("number", "1")],
    [Sound EXCEPT !.alias = TRUE],
    [Sound EXCEPT !.plaintext = {"password"}],
    [Sound EXCEPT !.name = Blank],
    [Sound EXCEPT !.keep = "bad"],
    [Sound EXCEPT !.max = "bad"],
    [Sound EXCEPT !.port = "bad"] }

MCSettings ==
  { [backend |-> b, deployment |-> d, tls |-> t[1], sentinelTls |-> t[2],
     clusterNodes |-> n, sentinels |-> s, prefix |-> p, master |-> m,
     host |-> alpha, alias |-> r.alias, plaintext |-> r.plaintext,
     name |-> r.name, keep |-> r.keep, max |-> r.max, port |-> r.port,
     verify |-> r.verify] :
    b \in {Blank, "postgres", "mysql"},
    d \in Deployments \cup {Blank, "ring"},
    t \in MCSwitches,
    n \in MCEndpoints, s \in MCEndpoints,
    p \in {Blank, "tagged", "untagged"}, m \in {Blank, "mymaster"},
    r \in MCSound }

(* The run explores instances of what is proved for all settings.          *)
ASSUME MCSettingsAssumption == MCSettings \subseteq Settings

MCInit ==
  /\ settings \in MCSettings
  /\ credentials = {"password", "tlsCa"}
  /\ BuildInit

MCSpec == MCInit /\ [][BuildNext]_buildVars
=============================================================================
