---------------------------- MODULE EbillErrors ----------------------------
(***************************************************************************)
(* The errors of the e-bill service's handlers and the HTTP statuses they  *)
(* are answered with (bcr-wdc-ebill-service, error.rs).  An error is named *)
(* by the layer it comes from and its variant; wrapping an error of the    *)
(* bill service, a validation or a protocol error in another layer's does  *)
(* not change its status.                                                  *)
(***************************************************************************)

OK == 200
BadRequest == 400
NotFound == 404
InternalError == 500

\* Errors of the handlers themselves.
WebErrors == {"Convert", "FileDownload", "IdentityType", "IdentityConversion",
              "InvalidMnemonic", "SharedBill", "SharedBillData",
              "IdentityAlreadyExists"}

\* Errors of the e-bill library: of its services, and of its protocol.
ServiceErrors == {"Json", "NotFound", "ExternalApi", "TransportService",
                  "CryptoUtil", "Persistence"}
BillServiceErrors == {"NotFound", "Persistence", "ExternalApi", "Cryptography",
                      "Notification", "Json"}
ProtocolErrors == {"Validation", "Serialization", "Deserialization", "Crypto",
                   "Blockchain"}

WebStatus(e) ==
    IF e \in {"Convert", "FileDownload", "IdentityConversion"}
    THEN InternalError ELSE BadRequest

ServiceStatus(e) ==
    CASE e = "NotFound" -> NotFound
      [] e = "Json"     -> BadRequest
      [] OTHER          -> InternalError

\* (mutant) What the bill service does not find in its stores is not there.
BillServiceStatusMissing(e) ==
    CASE e \in {"NotFound", "Persistence"} -> NotFound
      [] e = "Json"     -> BadRequest
      [] OTHER          -> InternalError

BillServiceStatus(e) ==
    CASE e = "NotFound" -> NotFound
      [] e = "Json"     -> BadRequest
      [] OTHER          -> InternalError

ValidationStatus == BadRequest

ProtocolStatus(e) == IF e = "Validation" THEN ValidationStatus ELSE InternalError
=============================================================================
