--------------------------- MODULE MC_ProtocolData ---------------------------
EXTENDS ProtocolData

\* One name and one cred def; the client ids are the referents the code
\* generates for the second attribute and the first predicate.
MCNames    == {"email"}
MCCredDefs == {"cd:1"}
MCGivenIDs == {"attr_referent_2", "predicate_1"}
MCMaxAttrs == 2
\* One value, and a MIME type other than the default.
MCValues   == {"a@b"}
MCMimes    == {"image/png"}
=============================================================================
