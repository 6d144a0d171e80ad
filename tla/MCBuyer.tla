------------------------------- MODULE MCBuyer -------------------------------
(* A small instance of Buyer: environments that differ in one setting or   *)
(* in one part of a URL, against sellers that deviate in one term.         *)
EXTENDS Buyer, TLC

MCLocalHosts == {"localhost"}
MCWorkersDev == {"seller.workers.dev", "other.workers.dev"}
MCElsewhere == {"elsewhere"}
MCPayTo == {"seller", "other"}

-----------------------------------------------------------------------------
(* Environments.                                                           *)
LocalUrl == [form |-> "url", scheme |-> "http", host |-> "localhost", port |-> "8787",
             creds |-> FALSE, path |-> "paid", query |-> "valid", hash |-> FALSE]
RemoteUrl == [LocalUrl EXCEPT !.scheme = "https", !.host = "seller.workers.dev",
                              !.port = "default"]
RemoteOrigin == [RemoteUrl EXCEPT !.path = "root", !.query = "none"]

Base == [API_URL |-> RemoteUrl, EXPECTED_REMOTE_API_ORIGIN |-> RemoteOrigin,
         EVM_PRIVATE_KEY |-> "key", EXPECTED_PAY_TO_ADDRESS |-> "seller"]
Allow == [ALLOW_TESTNET_PAYMENT |-> "true"]
Refuse == [ALLOW_TESTNET_PAYMENT |-> "false"]
Empty == [k \in {} |-> NULL]

Layered(p, b, d) == [process |-> p, envBuyer |-> b, env |-> d]

SettingLayers ==
  {Layered(p, b @@ Base, d) : p, b \in {Empty, Allow, Refuse}, d \in {Empty, Allow}}
  \cup {Layered(p, Allow @@ Base, Empty) :
          p \in { [X402_NETWORK |-> "eip155:8453"], [X402_NETWORK |-> BASE_SEPOLIA],
                  [EVM_PRIVATE_KEY |-> "offCurve"], [EVM_PRIVATE_KEY |-> "malformed"],
                  [EXPECTED_PAY_TO_ADDRESS |-> "other"],
                  [EXPECTED_PAY_TO_ADDRESS |-> "malformed"], [API_URL |-> LocalUrl] }}
  \cup {Layered(Allow, Empty, Empty)}

(* A URL or an expected origin that differs in one part from what passes.  *)
OnePartOff(u) ==
  {u} \cup {[u EXCEPT !.form = f] : f \in {"blank", "malformed"}}
      \cup {[u EXCEPT !.scheme = x] : x \in {"http", "https"}}
      \cup {[u EXCEPT !.host = h] : h \in Hosts}
      \cup {[u EXCEPT !.port = p] : p \in {"8787", "default"}}
      \cup {[u EXCEPT !.creds = TRUE], [u EXCEPT !.hash = TRUE]}
      \cup {[u EXCEPT !.path = p] : p \in {"paid", "root", "other"}}
      \cup {[u EXCEPT !.query = q] : q \in {"valid", "none", "bad"}}

UrlLayers ==
  {Layered([API_URL |-> u, EXPECTED_REMOTE_API_ORIGIN |-> RemoteOrigin], Allow @@ Base, Empty) :
     u \in OnePartOff(LocalUrl) \cup OnePartOff(RemoteUrl)}
  \cup {Layered([API_URL |-> u, EXPECTED_REMOTE_API_ORIGIN |-> o], Allow @@ Base, Empty) :
     u \in {LocalUrl, RemoteUrl}, o \in OnePartOff(RemoteOrigin)}

MCLayers == SettingLayers \cup UrlLayers

-----------------------------------------------------------------------------
(* Sellers.                                                                *)
Good == Requirement("seller")
Deviations ==
  { [Good EXCEPT !.scheme = "upto"], [Good EXCEPT !.network = "eip155:8453"],
    [Good EXCEPT !.amount = 1001], [Good EXCEPT !.asset = "otherToken"],
    [Good EXCEPT !.payTo = "other"], [Good EXCEPT !.maxTimeoutSeconds = 301],
    [Good EXCEPT !.name = NULL], [Good EXCEPT !.version = NULL] }

Face(status, header, offer) ==
  [status |-> status, header |-> header, offer |-> offer, redirects |-> FALSE]
Served(offer) == Face(402, "terms", offer)
Redirecting == [Served(<<Good>>) EXCEPT !.redirects = TRUE]

FewFaces == {Served(<<Good>>), Redirecting}
MCFaces ==
  FewFaces
  \cup {Face(s, "none", <<>>) : s \in {200, 402, 500}}
  \cup {Face(402, "garbled", <<>>), Face(500, "terms", <<Good>>), Served(<<>>)}
  \cup {Served(<<d>>) : d \in Deviations}
  \cup {Served(<<[Good EXCEPT !.payTo = "other"], Good>>),
        Served(<<Good, [Good EXCEPT !.amount = 1001]>>)}
=============================================================================
