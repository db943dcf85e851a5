------------------------------ MODULE WireBody ------------------------------
(***************************************************************************)
(* The last look at what leaves for a provider: request bodies of every      *)
(* shape and encoding (plugins/redact-secrets/src/wire-body.ts,             *)
(* redactWireRequest) and the urls of attachments (src/shared.ts,           *)
(* redactPartUrl; src/dataurl.ts).                                          *)
(*                                                                         *)
(* A body is a document in an encoding.  "legacy" is an encoding whose       *)
(* ASCII part is ASCII and which is not valid UTF-8; a document is ASCII or  *)
(* not.  The provider decodes by the charset that is declared; without one,  *)
(* or with UTF-8, as JSON is recognised in UTF-8, 16 and 32, leniently where *)
(* the body is declared as text.  Redaction of a JSON text masks its secret  *)
(* (RedactWalk).  A url has secrets at places, percent-encoded or not.       *)
(***************************************************************************)
EXTENDS Integers, Sequences, FiniteSets

VARIABLES outgoing, outcome

wbVars == <<outgoing, outcome>>

Encodings == {"utf8", "utf16le", "utf16be", "utf32le", "utf32be", "legacy"}
Contents == {"clean", "secret", "noJson"}
Charsets == {"none", "utf8", "utf16", "utf16be", "utf32", "legacy", "unknown"}
ByteKinds == {"view", "blob", "stream", "request"}

Bodies ==
    {[as |-> "body", kind |-> k, enc |-> e, bom |-> b, ascii |-> a, doc |-> d, charset |-> c, text |-> t,
      coding |-> z, large |-> g] :
        k \in ByteKinds, e \in Encodings, b \in BOOLEAN, a \in BOOLEAN, d \in Contents, c \in Charsets,
        t \in BOOLEAN, z \in {"none", "gzip"}, g \in BOOLEAN}
    \cup
    {[as |-> "body", kind |-> k, enc |-> "utf8", bom |-> FALSE, ascii |-> TRUE, doc |-> d, charset |-> "none",
      text |-> TRUE, coding |-> "none", large |-> g] :
        k \in {"string", "form"}, d \in Contents, g \in BOOLEAN}

Possible(b) == b.enc = "legacy" => ~b.ascii /\ ~b.bom

Places == {"mediatype", "payload", "host", "queryName", "queryValue", "user", "path", "fragment"}
PlacesOf(scheme) ==
    CASE scheme \in {"base64", "percent"} -> {"mediatype", "payload"}
      [] scheme = "http" -> Places \ {"mediatype", "payload"}
      [] OTHER -> {"path"}

Urls ==
    {[as |-> "url", scheme |-> s, secrets |-> x, opaque |-> m] :
        s \in {"file", "base64", "percent", "http", "other"},
        x \in {y \in SUBSET (Places \X BOOLEAN) : Cardinality(y) <= 2}, m \in {"no", "claimed", "confirmed"}}

PossibleUrl(u) == /\ \A x \in u.secrets : x[1] \in PlacesOf(u.scheme)
                  /\ u.scheme # "base64" => u.opaque = "no"

NotYet == [did |-> "nothing"]

WBInit ==
    /\ outgoing \in {b \in Bodies : Possible(b)} \cup {u \in Urls : PossibleUrl(u)}
    /\ outcome = NotYet

-----------------------------------------------------------------------------
(* Decoders.  "garbled" is a text that is no JSON. *)

Wide == {"utf16le", "utf16be", "utf32le", "utf32be"}
Wide32 == {"utf32le", "utf32be"}
Sniffable(b) == b.doc # "noJson"   \* it begins as JSON does

\* A fatal decoder for d over the body's bytes, its mark taken off.
Decoded(b, d) ==
    CASE b.enc = d -> b.doc
      [] b.enc = "utf8" /\ d = "legacy" -> IF b.ascii THEN b.doc ELSE "garbled"
      [] b.enc \in Wide /\ d = "utf8" -> IF b.ascii /\ ~b.bom THEN "garbled" ELSE "invalid"
      [] b.enc = "legacy" /\ d = "utf8" -> "invalid"
      [] OTHER -> "garbled"

\* By the byte order mark, by how JSON begins in UTF-32 and 16, else UTF-8.
Sniffed(b) ==
    CASE b.enc \in Wide32 /\ (b.bom \/ Sniffable(b)) -> "unscannable"
      [] b.enc \in {"utf16le", "utf16be"} /\ (b.bom \/ Sniffable(b)) -> Decoded(b, b.enc)
      [] OTHER -> Decoded(b, "utf8")

\* decodeWireBodyBytes.  A mark overrides the byte order of the charset.
DecodeWireBody(b) ==
    LET sixteen == IF b.bom /\ b.enc \in {"utf16le", "utf16be"} THEN b.enc
                   ELSE IF b.bom /\ b.enc = "utf32le" THEN "utf16le"
                   ELSE IF b.charset = "utf16be" THEN "utf16be" ELSE "utf16le"
        as == CASE b.charset \in {"utf32", "unknown"} -> "unscannable"
                [] b.charset \in {"utf16", "utf16be"} -> Decoded(b, sixteen)
                [] b.charset = "legacy" -> Decoded(b, "legacy")
                [] OTHER -> Sniffed(b)
    IN  IF as = "invalid" THEN IF b.text THEN "unscannable" ELSE "binary" ELSE as

\* Can a rewritten text be encoded as the body was?
CanEncode(b) == b.charset = "legacy" => b.ascii /\ b.enc = "utf8"

\* redactWireBodyBytes
RedactBytes(b) ==
    CASE DecodeWireBody(b) = "unscannable" -> "abort"
      [] DecodeWireBody(b) = "secret" -> IF CanEncode(b) THEN "rewrite" ELSE "abort"
      [] OTHER -> "pass"

\* redactWireRequest
RedactWireRequest(b) ==
    LET bytes == IF b.coding = "gzip" THEN "abort"
                 ELSE IF b.large /\ b.kind # "view" THEN "abort" ELSE RedactBytes(b)
        did == CASE b.kind = "form" -> "pass"
                 [] b.kind = "string" -> IF b.doc = "secret" THEN "rewrite" ELSE "pass"
                 [] OTHER -> bytes
    IN  [did |-> did]

-----------------------------------------------------------------------------
(* Urls. *)

Raw(u) == {x \in u.secrets : ~x[2]}
At(u, places) == {x \in u.secrets : x[1] \in places}

\* redactRemoteUrl: each component decoded, then the whole as it is.
RemoteLeft(u) == u.secrets \ (At(u, {"queryName", "queryValue", "user", "path", "fragment"}) \cup Raw(u))

\* redactPartUrl, isOpaqueBinaryPayload: a claimed type counts if the bytes
\* confirm it.  Base64 hides nothing: a secret in it is as good as raw.
UrlLeft(u) ==
    CASE u.scheme = "file" -> u.secrets
      [] u.scheme = "base64" ->
            (At(u, {"mediatype"}) \ Raw(u)) \cup (IF u.opaque = "confirmed" THEN At(u, {"payload"}) ELSE {})
      [] u.scheme = "percent" -> At(u, {"mediatype"}) \ Raw(u)
      [] u.scheme = "http" -> RemoteLeft(u)
      [] OTHER -> u.secrets \ Raw(u)

Inspect ==
    /\ outcome = NotYet
    /\ outcome' = IF outgoing.as = "body" THEN RedactWireRequest(outgoing)
                  ELSE [did |-> "url", left |-> UrlLeft(outgoing)]
    /\ UNCHANGED outgoing

WBSpec == WBInit /\ [][Inspect]_wbVars

-----------------------------------------------------------------------------
\* What the provider makes of the bytes.
ProviderReads(b) ==
    LET strict == CASE b.charset = "utf32" -> b.enc \in Wide32
                    [] b.charset = "utf16" -> b.enc = "utf16le" \/ (b.enc = "utf16be" /\ b.bom)
                    [] b.charset = "utf16be" -> b.enc = "utf16be" \/ (b.enc = "utf16le" /\ b.bom)
                    [] b.charset = "legacy" -> b.enc = "legacy" \/ (b.enc = "utf8" /\ b.ascii)
                    [] b.charset = "unknown" -> TRUE
                    [] OTHER -> b.enc # "legacy" \/ b.text
    IN  IF strict THEN b.doc ELSE "noJson"

\* No body whose secret the provider could read is forwarded as it is; none is
\* rewritten that had no secret; plain UTF-8 is never turned away.  What is left
\* in a url is a local path, bytes that are a picture, or encoded where nothing
\* decodes it.
NothingReadableLeaves ==
    /\ outcome # NotYet /\ outgoing.as = "url" =>
          \A x \in outcome.left :
             \/ outgoing.scheme = "file" \/ (outgoing.opaque = "confirmed" /\ x[1] = "payload")
             \/ x[2] /\ (x[1] \in {"mediatype", "host"} \/ outgoing.scheme = "other")
    /\ outcome # NotYet /\ outgoing.as = "body" /\ outgoing.kind # "form" =>
          /\ outcome.did = "pass" => ProviderReads(outgoing) # "secret"
          /\ outcome.did = "rewrite" => outgoing.doc = "secret"
          /\ (/\ outgoing.enc = "utf8" /\ outgoing.charset \in {"none", "utf8"}
              /\ outgoing.coding = "none" /\ ~outgoing.large)
                => outcome.did = (IF outgoing.doc = "secret" THEN "rewrite" ELSE "pass")
=============================================================================
