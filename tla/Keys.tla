---------------------------------- MODULE Keys ----------------------------------
(*******************************************************************************)
(* The keys of a server and what signs with them: private keys from files,     *)
(* signers of PKCS #11 modules, of Azure Key Vault (internal/azure) and of     *)
(* Google Cloud KMS (internal/google).  The services are external: the vault   *)
(* signs with the algorithm that it is told, KMS with the one of the key.      *)
(*******************************************************************************)
EXTENDS Integers

CONSTANTS
    Key,    \* private keys; the SKI of a key stands for the key
    Kind    \* what each key is: where it is kept, and its type there

Hash == {"MD5SHA1", "SHA1", "SHA224", "SHA256", "SHA384", "SHA512"}

(* Algorithms of keys of KMS, by padding (or curve) and hash.                  *)
SignAlgorithms ==
    {<<"PSS", "SHA256">>, <<"PSS", "SHA512">>, <<"PKCS1", "SHA256">>, <<"PKCS1", "SHA512">>,
     <<"EC", "SHA256">>, <<"EC", "SHA384">>}
OtherAlgorithms == {<<"decrypt", "SHA256">>}

Kinds ==
    ({"file"} \X {"rsa", "p256", "ecdsa", "ed25519"})
        \cup ({"pkcs11"} \X {"rsa", "ecdsa"})
        \cup ({"azure"} \X {"EC", "RSA", "EC-HSM", "RSA-HSM", "oct-HSM"})
        \cup ({"google"} \X (SignAlgorithms \cup OtherAlgorithms))

ASSUME KindAssumption == Kind \in [Key -> Kinds]

Store(k) == Kind[k][1]
Type(k) == Kind[k][2]

(* KeyVaultSigner.keyType, as getPublicKey leaves it.                          *)
keyType(k) ==
    CASE Type(k) \in {"EC", "EC-HSM"} -> "EC"
      [] Type(k) \in {"RSA", "RSA-HSM"} -> "RSA"
      [] OTHER -> "unsupported"

(* Whether AddFromFile or AddFromURI can load a key: getPublicKey of the two   *)
(* services refuses a key that keyless has no use for.                         *)
Loads(k) ==
    CASE Store(k) = "azure" -> keyType(k) # "unsupported"
      [] Store(k) = "google" -> Type(k) \in SignAlgorithms
      [] OTHER -> TRUE

(* The type of the public key, if there is one.                                *)
Public(k) ==
    CASE Store(k) = "azure" -> CASE keyType(k) = "EC" -> "ecdsa"
                                 [] keyType(k) = "RSA" -> "rsa"
                                 [] OTHER -> "none"
      [] Store(k) = "google" -> IF Type(k)[1] = "EC" THEN "ecdsa" ELSE "rsa"
      [] OTHER -> IF Type(k) = "p256" THEN "ecdsa" ELSE Type(k)

(* A signature: the key, the hash, RSASSA-PSS or not, and the form of it; one  *)
(* of ECDSA is a pair of integers, which TLS wants in ASN.1.                   *)
Signature(k, hash, pss, form) == <<"sig", k, hash, pss, form>>
Form(k) == IF Public(k) = "ecdsa" THEN "ASN.1" ELSE "bytes"
--------------------------------------------------------------------------------
(* determineSigAlg: options of PSS are no crypto.Hash and match no case.       *)
determineSigAlg(k, hash, pss) ==
    IF pss \/ hash \notin {"SHA256", "SHA384", "SHA512"} THEN "unsupported"
    ELSE IF keyType(k) = "EC" THEN "ES" ELSE "RS"

(* Sign of the vault: a signature of ECDSA is the two integers (IEEE 1363).    *)
VaultSign(k, hash, algo) ==
    {Signature(k, hash, FALSE, IF algo = "ES" THEN "IEEE 1363" ELSE "bytes")}

convert1363ToAsn1(sig) == [sig EXCEPT ![5] = "ASN.1"]

(* KeyVaultSigner.Sign.                                                        *)
azureSign(k, hash, pss) ==
    LET algo == determineSigAlg(k, hash, pss)
    IN  CASE algo = "unsupported" -> {}
          [] algo # "unsupported" /\ keyType(k) = "RSA" -> VaultSign(k, hash, algo)
          [] OTHER -> {convert1363ToAsn1(sig) : sig \in VaultSign(k, hash, algo)}

(* AsymmetricSign of KMS: the digest must be that of the key's algorithm.      *)
AsymmetricSign(k, hash) ==
    IF hash = Type(k)[2] THEN {Signature(k, hash, Type(k)[1] = "PSS", Form(k))} ELSE {}

(* KMSSigner.Sign.                                                             *)
googleSign(k, hash, pss) ==
    IF pss \/ hash \notin {"SHA256", "SHA384", "SHA512"} THEN {}
    ELSE AsymmetricSign(k, hash)

(* Go's own keys and the signers of crypto11: Ed25519 signs the message        *)
(* itself, no hash of it.                                                      *)
localSign(k, hash, pss) ==
    IF Type(k) = "ed25519" /\ hash # "none" THEN {}
    ELSE {Signature(k, hash, pss /\ Public(k) = "rsa", Form(k))}

(* crypto.Signer.Sign: the signatures a key may return; it may always fail.    *)
KeySign(k, hash, pss) ==
    CASE Store(k) = "azure" -> azureSign(k, hash, pss)
      [] Store(k) = "google" -> googleSign(k, hash, pss)
      [] OTHER -> localSign(k, hash, pss)

(* Whether the signer is a crypto.Decrypter too.                               *)
IsDecrypter(k) == Public(k) = "rsa" /\ Store(k) \in {"file", "pkcs11"}
================================================================================
