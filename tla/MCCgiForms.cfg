SPECIFICATION Spec
CONSTANTS
  Words = {"a", "b"}
  Texts <- SomeTexts
  Names <- SomeNames
  InitPasswd <- SomePasswds
  KeyMax = 2
  FileNameMax = 4
  FormMax = 6
  PathMax = 7
  OpenMax = 3
INVARIANTS
  ReadAsTyped
  ConfirmedPasswordWorks
  AcceptedGetsPage
  OpensAskedFile
