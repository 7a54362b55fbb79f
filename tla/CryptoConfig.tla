---------------------------- MODULE CryptoConfig ----------------------------
(***************************************************************************)
(* The configuration of the crypto library in the bootloader: the options     *)
(* that bootloader_mbedtls_config.h turns on, in its order and named without   *)
(* their prefix MBEDTLS_, and what a build makes of them. The library is       *)
(* external: it includes the header that the macro MBEDTLS_CONFIG_FILE names,  *)
(* and if nothing defines that, a configuration of its own.                    *)
(***************************************************************************)
EXTENDS Naturals, FiniteSets

CONSTANTS
    Own,      \* the options of the library's own configuration
    MaxOff    \* bound: options commented out at a time

-----------------------------------------------------------------------------
(* System support and features *)

Assembler == {"HAVE_ASM"}
Time      == {"HAVE_TIME", "HAVE_TIME_DATE"}
Memory    == {"PLATFORM_MEMORY"}

CipherModes ==
    {"CIPHER_MODE_CBC", "CIPHER_MODE_CFB", "CIPHER_MODE_CTR", "CIPHER_MODE_OFB",
     "CIPHER_MODE_XTS"}
CipherPaddings ==
    {"CIPHER_PADDING_PKCS7", "CIPHER_PADDING_ONE_AND_ZEROS",
     "CIPHER_PADDING_ZEROS_AND_LEN", "CIPHER_PADDING_ZEROS"}

WeierstrassCurves ==
    {"ECP_DP_SECP192R1_ENABLED", "ECP_DP_SECP224R1_ENABLED",
     "ECP_DP_SECP256R1_ENABLED", "ECP_DP_SECP384R1_ENABLED",
     "ECP_DP_SECP521R1_ENABLED", "ECP_DP_SECP192K1_ENABLED",
     "ECP_DP_SECP224K1_ENABLED", "ECP_DP_SECP256K1_ENABLED",
     "ECP_DP_BP256R1_ENABLED", "ECP_DP_BP384R1_ENABLED", "ECP_DP_BP512R1_ENABLED"}
MontgomeryCurves == {"ECP_DP_CURVE25519_ENABLED", "ECP_DP_CURVE448_ENABLED"}
CurveSpeed       == {"ECP_NIST_OPTIM"}
Deterministic    == {"ECDSA_DETERMINISTIC"}

PskExchanges ==
    {"KEY_EXCHANGE_PSK_ENABLED", "KEY_EXCHANGE_DHE_PSK_ENABLED",
     "KEY_EXCHANGE_ECDHE_PSK_ENABLED", "KEY_EXCHANGE_RSA_PSK_ENABLED"}
RsaExchanges ==
    {"KEY_EXCHANGE_RSA_ENABLED", "KEY_EXCHANGE_DHE_RSA_ENABLED",
     "KEY_EXCHANGE_ECDHE_RSA_ENABLED"}
EcExchanges ==
    {"KEY_EXCHANGE_ECDHE_ECDSA_ENABLED", "KEY_EXCHANGE_ECDH_ECDSA_ENABLED",
     "KEY_EXCHANGE_ECDH_RSA_ENABLED"}

KeyFeatures == {"PK_PARSE_EC_EXTENDED", "ERROR_STRERROR_DUMMY", "GENPRIME", "FS_IO"}
RsaFeatures == {"PK_RSA_ALT_SUPPORT", "PKCS1_V15", "PKCS1_V21"}
SelfTests   == {"SELF_TEST"}

AlertMessages == {"SSL_ALL_ALERT_MESSAGES"}
Serialization == {"SSL_CONTEXT_SERIALIZATION"}
TlsFeatures ==
    {"SSL_ENCRYPT_THEN_MAC", "SSL_EXTENDED_MASTER_SECRET",
     "SSL_KEEP_PEER_CERTIFICATE", "SSL_RENEGOTIATION",
     "SSL_MAX_FRAGMENT_LENGTH", "SSL_PROTO_TLS1_2"}
DtlsFeatures ==
    {"SSL_PROTO_DTLS", "SSL_ALPN", "SSL_DTLS_ANTI_REPLAY", "SSL_DTLS_HELLO_VERIFY"}
TlsExtensions ==
    {"SSL_DTLS_CLIENT_PORT_REUSE", "SSL_SESSION_TICKETS", "SSL_EXPORT_KEYS",
     "SSL_SERVER_NAME_INDICATION"}
VersionFeatures == {"VERSION_FEATURES"}
PssSupport      == {"X509_RSASSA_PSS_SUPPORT"}

Features ==
    UNION {Assembler, Time, Memory, CipherModes, CipherPaddings,
           WeierstrassCurves, MontgomeryCurves, CurveSpeed, Deterministic,
           PskExchanges, RsaExchanges, EcExchanges, KeyFeatures, RsaFeatures,
           SelfTests, AlertMessages, Serialization, TlsFeatures, DtlsFeatures,
           TlsExtensions, VersionFeatures, PssSupport}

-----------------------------------------------------------------------------
(* Modules *)

AesModules      == {"AESNI_C", "AES_C"}
EncodingModules == {"ASN1_PARSE_C", "ASN1_WRITE_C", "BASE64_C", "BIGNUM_C"}
BlockModules    == {"CAMELLIA_C", "ARIA_C"}
CipherModules   == {"CCM_C", "CHACHA20_C", "CHACHAPOLY_C", "CIPHER_C", "CMAC_C",
                    "CTR_DRBG_C", "DEBUG_C", "DES_C"}
CurveModules    == {"DHM_C", "ECDH_C", "ECDSA_C", "ECJPAKE_C", "ECP_C"}
RandomModules   == {"ENTROPY_C", "ERROR_C", "GCM_C", "HKDF_C", "HMAC_DRBG_C",
                    "NIST_KW_C", "MD_C", "MD5_C"}
SystemModules   == {"MEMORY_BUFFER_ALLOC_C", "NET_C", "OID_C", "PADLOCK_C"}
KeyModules      == {"PEM_PARSE_C", "PEM_WRITE_C", "PK_C", "PK_PARSE_C",
                    "PK_WRITE_C", "PKCS5_C", "PKCS12_C"}
PlatformModules == {"PLATFORM_C", "POLY1305_C"}
PsaCrypto       == {"PSA_CRYPTO_C"}
PsaStorage      == {"PSA_CRYPTO_STORAGE_C", "PSA_ITS_FILE_C"}
HashModules     == {"RIPEMD160_C", "RSA_C", "SHA1_C", "SHA224_C", "SHA256_C",
                    "SHA384_C", "SHA512_C"}
TlsModules      == {"SSL_CACHE_C", "SSL_COOKIE_C", "SSL_TICKET_C", "SSL_CLI_C",
                    "SSL_SRV_C", "SSL_TLS_C"}
TimeModules     == {"TIMING_C", "VERSION_C"}
X509Modules     == {"X509_USE_C", "X509_CRT_PARSE_C", "X509_CRL_PARSE_C",
                    "X509_CSR_PARSE_C", "X509_CREATE_C", "X509_CRT_WRITE_C",
                    "X509_CSR_WRITE_C"}

Modules ==
    UNION {AesModules, EncodingModules, BlockModules, CipherModules,
           CurveModules, RandomModules, SystemModules, KeyModules,
           PlatformModules, PsaCrypto, PsaStorage, HashModules, TlsModules,
           TimeModules, X509Modules}

Shipped == Features \cup Modules

-----------------------------------------------------------------------------
VARIABLES
    off,      \* options that the header has commented out, of those above
    library,  \* options that the library was last built with
    last      \* the last step: "edit" or "build"

configVars == <<off, library, last>>

Selected == Shipped \ off

\* The macros that the build defines for every file it compiles.
Definitions == {"_GNU_SOURCE", "MBEDTLS_CONFIG"}

ConfigInit == off = {} /\ library = {} /\ last = "edit"

CommentOut ==
    /\ Cardinality(off) < MaxOff
    /\ \E o \in Selected : off' = off \cup {o}
    /\ last' = "edit"
    /\ UNCHANGED library

Uncomment ==
    /\ \E o \in off : off' = off \ {o}
    /\ last' = "edit"
    /\ UNCHANGED library

Build ==
    /\ library' = IF "MBEDTLS_CONFIG_FILE" \in Definitions THEN Selected ELSE Own
    /\ last' = "build"
    /\ UNCHANGED off

ConfigNext == CommentOut \/ Uncomment \/ Build
ConfigSpec == ConfigInit /\ [][ConfigNext]_configVars

-----------------------------------------------------------------------------
\* "This set of compile-time options may be used to enable or disable features
\* selectively" (bootloader_mbedtls_config.h:5): a build gives the library what
\* the header selects.
HeaderSelects == last = "build" => library = Selected
=============================================================================
