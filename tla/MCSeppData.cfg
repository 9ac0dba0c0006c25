CONSTANTS
  None = None
  NoFqdn = NoFqdn
  AnyAddress = AnyAddress
  Hosts = {NoFqdn, "oai-sepp"}
  Addresses = {"one", "another"}
  Readable = {"one", "another"}
  Texts <- MCTexts
  Keys <- MCKeys
  Bodies <- MCBodies
  Aads <- MCAads
  MaxReads = 2
SPECIFICATION Spec
INVARIANT TypeOK
INVARIANT NbiListensUnlessWarned
INVARIANT ReadBackSame
INVARIANT EncodesAsBase64url
INVARIANT DecodesBack
INVARIANT OpensAsSealed
CHECK_DEADLOCK FALSE
