------------------------------ MODULE Security ------------------------------
(***************************************************************************)
(* How a runner with secure_credentials comes to trust its node: the TLS   *)
(* probe (tls_peer_key.py), the check of the wallet delegation             *)
(* (wallet_gelegation.py) and the interceptor that makes it on every call  *)
(* (grpc_auth_interceptor.py).  Pure operators, by the value they return   *)
(* or the exception they raise.  Signatures and certificates are taken at  *)
(* their word: a statement is signed if it is among those a wallet Issued. *)
(***************************************************************************)
CONSTANTS Keys,     \* public keys of nodes (SPKI)
          Wallets, ModelIds, Hotkeys,
          Issued,   \* the statements that wallets have signed
          None      \* Python's None

Exceptions == {"TimeoutError", "TlsProbeError", "AuthError", "AttributeError",
               "ValueError", "AioRpcError", "UsageError",
               "InvalidCoordinatorUsageError"}

ASSUME SecurityAssumption == /\ Keys \cap (Exceptions \cup {None}) = {}
                             /\ None \notin Exceptions

\* What may answer at the node's address, as a TLS client sees it.
Peers == [state : {"down", "silent", "plain", "tls"},
          trusted : BOOLEAN,                       \* by our CA, for the hostname
          client : {"accepted", "refused", "mute"}, \* what it says to our certificate
          cert : Keys \cup {"not RSA", "unparsable"}]

\* fetch_peer_rsa_spki_mtls: the node's key or an exception.
FetchPeer(peer, verify, check_tls_client_auth) ==
  IF peer.state = "silent" THEN "TimeoutError"
  ELSE IF \/ peer.state # "tls"
          \/ verify /\ ~peer.trusted
          \/ check_tls_client_auth /\ peer.client = "refused"
       THEN "TlsProbeError"
  ELSE IF check_tls_client_auth /\ peer.client = "mute" THEN "TimeoutError"
  ELSE IF peer.cert = "unparsable" THEN "ValueError"
  ELSE IF peer.cert = "not RSA" THEN "TlsProbeError"
  ELSE peer.cert

\* is_tls_connection, which lets ValueError pass.
IsTls(peer) == FetchPeer(peer, FALSE, FALSE) \in Keys

-----------------------------------------------------------------------------
\* What a node may send in the initial metadata of an answer.
Statements == [wallet : Wallets,
               payload : {"object", "other JSON", "no JSON"},
               cert_pub : Keys \cup {"missing", "garbage"},
               model_id : ModelIds, hotkey : Hotkeys,
               expires_at : {"none", "number", "garbage"}]
Headers == [text : BOOLEAN, decodes : BOOLEAN, wallet : Wallets, message : Statements]

wallet_verify(h) == h.message \in Issued /\ h.message.wallet = h.wallet

\* Defect: the payload is not bound to the key of the connection.
FaultyVerifyDelegation(h, expected, tls_pub) ==
  IF ~h.decodes \/ h.wallet # expected.wallet \/ ~wallet_verify(h) THEN "AuthError"
  ELSE IF h.message.payload # "object" THEN "AuthError"
  ELSE IF \/ h.message.model_id # expected.model_id
          \/ h.message.hotkey # expected.hotkey
       THEN "AuthError"
  ELSE "verified"

\* verify_wallet_delegation: "verified" or an exception.  A payload that is no
\* object has no get(), and only the last line converts expires_at.
VerifyDelegation(h, expected, tls_pub) ==
  LET signed == h.message IN
  IF \/ ~h.decodes
     \/ h.wallet # expected.wallet
     \/ ~wallet_verify(h)
     \/ signed.payload = "no JSON"
  THEN "AuthError"
  ELSE IF signed.payload = "other JSON" THEN "AttributeError"
  ELSE IF \/ signed.cert_pub \notin Keys
          \/ signed.cert_pub # tls_pub
          \/ signed.model_id # expected.model_id
          \/ signed.hotkey # expected.hotkey
       THEN "AuthError"
  ELSE IF signed.expires_at = "garbage" THEN "ValueError"
  ELSE "verified"

\* WalletTlsAuthClientInterceptor: an answer with no metadata is refused, be it an
\* RPC that failed before any was sent.
Intercept(headers, expected, tls_pub) ==
  IF headers = None THEN "AuthError"
  ELSE IF ~headers.text THEN "AuthError"
  ELSE VerifyDelegation(headers, expected, tls_pub)
=============================================================================
