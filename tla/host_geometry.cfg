SPECIFICATION Spec
CONSTANTS
  Kinds = {"V1", "SC", "HC"}
  Csd <- MCCsd
  Shift = 0
  Controllers = {"byCommand", "byType"}
  Inquiries = {TRUE, FALSE}
  Rcas <- MCRcas
  Refusals = {19}
  Faulty = FALSE
  Lbas = {0, 1, 70}
  IoAlign = 4
  PoolAlign = 8
  Addresses = 65536
  MaxMedia = 1
  Retries = 2
PROPERTIES GeometryIsOfCard
