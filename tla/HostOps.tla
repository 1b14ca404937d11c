------------------------------ MODULE HostOps ------------------------------
(***************************************************************************)
(* What a request does on the machine of mobilecli itself (utils/): files  *)
(* it downloads, unpacks, signs and packs again.                           *)
(***************************************************************************)
EXTENDS Procedures

\* Names that lead out of the destination are refused.
unzipFile == Check("archive opens") ** Temp("archive") ** Check("entry names") ** Check("entries written")

\* The directory is the caller's only once everything is unpacked.
Unzip(dir) == Take(dir) ** unzipFile ** Defer(dir)

\* What was written before the download broke off stays, in the caller's directory.
DownloadFile == Ask("http get") ** Temp("http response") ** Check("http status") ** Check("body written")

SHA256File == Check("file readable")
CopyFile == Check("source") ** Check("destination") ** Check("mode")

ProcessScreenshot == Check("png") ** Optional(Check("clip")) ** Check("encoded")

ParseAppMetadata == Attempt(Check("app file") ** Check("plist"))

---------------------------------------------------------------------------
(* Signing an .ipa for a device *)

codesign(what) == Ask("codesign " \o what)

\* A bundle without the directory has none of them.
signFrameworks == Skip | (Check("Frameworks read") ** Optional(codesign("framework")))
signLooseDylibs == Check("bundle read") ** Optional(codesign("dylib"))
signPlugins == Skip | (Check("PlugIns read") ** Optional(signLooseDylibs ** codesign("plugin")))
\* Inside out: a seal covers what is in the bundle already.
signAppBundle == signFrameworks ** signPlugins ** signLooseDylibs ** codesign("app")

findAppBundle == Check("app bundle")
readBundleID == Check("bundle id")
decodeProvisioningProfile == Ask("openssl") ** Check("profile plist")
findMatchingProfile == Ask("home directory") ** Attempt(decodeProvisioningProfile) ** Check("profile matches")
resolveProvisioningProfile == Check("profile exists") | findMatchingProfile
findSigningIdentity == Ask("find-identity") ** Check("identity in profile")
resolveSigningIdentity == Skip | findSigningIdentity
writeEntitlementsPlist ==
  Take("entitlements") ** Undoing({"entitlements"}, Check("entitlements written"))
\* fault: the archive that zip gave up on stays.
RepackageCarelessly(ipa) == Take(ipa) ** Ask("zip")
repackageIPA(ipa) == Take(ipa) ** Undoing({ipa}, Ask("zip"))

\* Everything but the result is removed however it ends.
ResignIPA(ipa) ==
  Temp("unpacked ipa") ** unzipFile ** findAppBundle ** readBundleID
    ** resolveProvisioningProfile ** decodeProvisioningProfile ** Check("team")
    ** resolveSigningIdentity ** writeEntitlementsPlist ** Defer("entitlements")
    ** CopyFile ** signAppBundle ** repackageIPA(ipa)
=============================================================================
