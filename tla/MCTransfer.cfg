CONSTANTS
    FileLen = 3
    MaxBlock = 2
    Tests = {1, 2, 3, 4, 5}
    BodyLen = 4
    FreeSize = 4
    OldLens = {0, 3, 6}
    HeadLen = 3
    FieldLen = 4
    RegTries = 10
    HttpBlock = 2
    FormBlock = 2
    FotaBlock = 2
    UpdBlock = 2
    UpdLen = 3
    UpdRooms = {2, 3}
    Sizes = {512, 1000, 2048}
    FileLens = {0, 1, 100, 600, 3000}
    TextLen = 36
    MailHeadLen = 220
    TextHeadLen = 124
    AttaHeadLen = 204
    TailLen = 43
    TextHeadRoom = 135
    AttaHeadRoom = 512
    TailRoom = 45
    ImgLen = 3
    Growth = 2
    FreeSizes = {2, 3}
    MaxResume = 3
SPECIFICATION TransferSpec
INVARIANTS
    TransferTypesOK
    DownloadWhole
    UploadWhole
    LocalFileClosed
    CleanRun
    SavedIsPrefix
    FieldInOrder
    ImageSound
    FtpImageWhole
    WithinBuffer
    MailInOrder
    MailComplete
